---- MODULE Spec2Model ----
(***************************************************************************)
(* Model of the fhEVM SDK provider protocol client:                        *)
(*   packages/fhevm-sdk/src/provider.ts    (FHEProvider)                   *)
(*   packages/fhevm-sdk/src/encryption.ts  (createFHEInstance)             *)
(*   packages/fhevm-sdk/src/decryption.ts  (decrypt, publicDecrypt, ...)   *)
(* JavaScript runs one task at a time: every action below is the code that *)
(* runs between two awaits of one call.                                    *)
(***************************************************************************)
EXTENDS Integers, Sequences, FiniteSets, TLC

\* ------------------------------------------------------------------ bounds
MaxInits == 2      \* initialize() calls issued in one behaviour
MaxBatches == 1    \* decryptBatch calls issued
MaxHandles == 2    \* handles passed to one decryptBatch call
MaxStrLen == 2     \* characters of an enumerated scalar string
MaxItems == 2      \* items passed to one encryptBatch call
MaxReqs == 2       \* decrypt / publicDecrypt / getGatewayInfo calls issued
MaxPausers == 2    \* addresses passed to the constructor of CropYieldOptimizer
MaxAnalyses == 2   \* collaborative analyses started
MaxDecryptionRequests == 2  \* decryption requests made to CropYieldOptimizer
MaxRetries == 3    \* largest maxRetries passed to retry

\* ------------------------------------------------------------------ values
\* JavaScript null (a record, as every nullable value of the model is one)
Null == [null |-> TRUE]

\* FHEConfig values handed to initialize()
Configs ==
  { [chainId |-> 31337, gatewayAddress |-> "gwA"],
    [chainId |-> 11155111, gatewayAddress |-> "gwB"] }

\* ethers providers handed to initialize() / setProvider()
Providers == {[rpc |-> "http://localhost:8545"]}

\* the FHEInstance returned by createFHEInstance(config): a closure over the
\* fhevmjs instance created from that config
EngineOf(cfg) == [cfg |-> cfg]

\* ---- integers of arbitrary width: sign and magnitude, the magnitude as
\* big-endian bytes without leading zero bytes (<<>> is 0)
Byte == 0..255

Rep(b, n) == [i \in 1..n |-> b]

Pow2(w) == <<1>> \o Rep(0, w \div 8)

MaxUint(w) == Rep(255, w \div 8)

BigInt(neg, mag) == [neg |-> neg, mag |-> mag]

RECURSIVE LexLess(_, _)
LexLess(a, b) ==
  IF a = <<>> THEN FALSE
  ELSE IF Head(a) # Head(b) THEN Head(a) < Head(b)
  ELSE LexLess(Tail(a), Tail(b))

\* a < b on magnitudes
MagLess(a, b) ==
  \/ Len(a) < Len(b)
  \/ Len(a) = Len(b) /\ LexLess(a, b)

\* value < 0
IsNegative(v) == v.neg /\ v.mag # <<>>

\* value > max, for max >= 0
GreaterThan(v, max) == ~IsNegative(v) /\ MagLess(max.mag, v.mag)

Widths == {8, 16, 32, 64, 128, 256}

UintKind(w) == [kind |-> "uint", width |-> w]
BoolKind == [kind |-> "bool", width |-> 0]
AddressKind == [kind |-> "address", width |-> 0]

Kinds == {BoolKind, AddressKind} \cup {UintKind(w) : w \in Widths}

\* an address argument: the properties of the string the regular expression
\* /^0x[a-fA-F0-9]{40}$/ looks at
AddressStrings ==
  [prefix : BOOLEAN, hexLen : {39, 40, 41}, allHex : BOOLEAN]

IsAddressFormat(a) == a.prefix /\ a.allHex /\ a.hexLen = 40

IntInputs ==
  {BigInt(TRUE, <<1>>), BigInt(FALSE, <<>>), BigInt(FALSE, <<1>>)}
    \cup {BigInt(FALSE, MaxUint(w)) : w \in Widths}
    \cup {BigInt(FALSE, Pow2(w)) : w \in Widths}

InputsOf(kind) ==
  IF kind.kind = "bool" THEN BOOLEAN
  ELSE IF kind.kind = "address" THEN AddressStrings
  ELSE IntInputs

\* '0x' + Buffer.from(encrypted).toString('hex'): a string, whatever the
\* bytes the engine returned
HexString(bytes) == [typeof |-> "string", hex |-> bytes]

\* the type names encryptBatch switches on
BatchTypes ==
  {"bool", "uint8", "uint16", "uint32", "uint64", "uint128", "uint256", "address"}

KindOfType(type) ==
  CASE type = "bool" -> BoolKind
    [] type = "uint8" -> UintKind(8)
    [] type = "uint16" -> UintKind(16)
    [] type = "uint32" -> UintKind(32)
    [] type = "uint64" -> UintKind(64)
    [] type = "uint128" -> UintKind(128)
    [] type = "uint256" -> UintKind(256)
    [] type = "address" -> AddressKind

\* the tags with the tag of uint8 copied to uint16
TypeTag_Uint8Copied(kind) ==
  CASE kind = BoolKind -> "ebool"
    [] kind = UintKind(8) -> "euint8"
    [] kind = UintKind(16) -> "euint8"
    [] kind = UintKind(32) -> "euint32"
    [] kind = UintKind(64) -> "euint64"
    [] kind = UintKind(128) -> "euint128"
    [] kind = UintKind(256) -> "euint256"
    [] kind = AddressKind -> "eaddress"

\* the type field of the EncryptedValue that encryptBool .. encryptAddress
\* (the functions taking an instance) return
TypeTag(kind) ==
  CASE kind = BoolKind -> "ebool"
    [] kind = UintKind(8) -> "euint8"
    [] kind = UintKind(16) -> "euint16"
    [] kind = UintKind(32) -> "euint32"
    [] kind = UintKind(64) -> "euint64"
    [] kind = UintKind(128) -> "euint128"
    [] kind = UintKind(256) -> "euint256"
    [] kind = AddressKind -> "eaddress"

\* the range check written with >= in place of >
RejectsValue_OffByOne(kind, v) ==
  IF kind.kind = "bool" THEN FALSE
  ELSE IF kind.kind = "address" THEN ~IsAddressFormat(v)
  ELSE \/ IsNegative(v)
       \/ GreaterThan(v, BigInt(FALSE, MaxUint(kind.width)))
       \/ v = BigInt(FALSE, MaxUint(kind.width))

\* the range / format check at the head of each encrypt closure
RejectsValue(kind, v) ==
  IF kind.kind = "bool" THEN FALSE
  ELSE IF kind.kind = "address" THEN ~IsAddressFormat(v)
  ELSE IsNegative(v) \/ GreaterThan(v, BigInt(FALSE, MaxUint(kind.width)))

\* ---- strings: sequences of one-character strings
DigitChars == <<"0", "1", "2", "3", "4", "5", "6", "7", "8", "9">>

Digit == {DigitChars[d] : d \in 1..10}

DigitVal(c) == (CHOOSE d \in 1..10 : DigitChars[d] = c) - 1

\* the string of a list of decimal digits
DigitString(ds) == [i \in 1..Len(ds) |-> DigitChars[ds[i] + 1]]

\* the decimal string of a natural number
RECURSIVE DecString(_)
DecString(n) ==
  IF n < 10 THEN <<DigitChars[n + 1]>>
  ELSE DecString(n \div 10) \o <<DigitChars[(n % 10) + 1]>>

WhiteSpace == {" ", "\t", "\n", "\r"}

RECURSIVE TrimStart(_)
TrimStart(s) ==
  IF s # <<>> /\ Head(s) \in WhiteSpace THEN TrimStart(Tail(s)) ELSE s

RECURSIVE TrimEnd(_)
TrimEnd(s) ==
  IF s # <<>> /\ s[Len(s)] \in WhiteSpace
  THEN TrimEnd(SubSeq(s, 1, Len(s) - 1))
  ELSE s

\* the longest prefix of s made of decimal digits
RECURSIVE DigitPrefix(_)
DigitPrefix(s) ==
  IF s # <<>> /\ Head(s) \in Digit
  THEN <<Head(s)>> \o DigitPrefix(Tail(s))
  ELSE <<>>

\* a non-empty digit string without its leading zeros
RECURSIVE StripZeros(_)
StripZeros(ds) ==
  IF Len(ds) > 1 /\ Head(ds) = "0" THEN StripZeros(Tail(ds)) ELSE ds

\* a < b on digit strings without leading zeros
DigitsLess(a, b) ==
  MagLess([i \in 1..Len(a) |-> DigitVal(a[i])], [i \in 1..Len(b) |-> DigitVal(b[i])])

\* ---- JavaScript numbers holding integers, and bigints: a sign and the
\* decimal digits of the magnitude (a number can be -0, a bigint cannot)
NaN == [nan |-> TRUE]

SyntaxError == [syntaxError |-> TRUE]

Integer(neg, digits) == [neg |-> neg, digits |-> digits]

\* 2^53: below it every integer is a double, from it up to 2^54 the doubles
\* are the even integers
TwoTo53 == DigitString(<<9, 0, 0, 7, 1, 9, 9, 2, 5, 4, 7, 4, 0, 9, 9, 2>>)

RECURSIVE Succ(_)
Succ(ds) ==
  IF ds = <<>> THEN <<"1">>
  ELSE LET init == SubSeq(ds, 1, Len(ds) - 1)
           last == ds[Len(ds)]
       IN IF last = "9" THEN Succ(init) \o <<"0">>
          ELSE init \o <<DigitChars[DigitVal(last) + 2]>>

\* the double nearest to an integer below 2^54, ties to the even mantissa
ToDouble(neg, ds) ==
  IF DigitsLess(ds, TwoTo53) \/ DigitVal(ds[Len(ds)]) % 2 = 0
  THEN Integer(neg, ds)
  ELSE LET mod4 == (10 * DigitVal(ds[Len(ds) - 1]) + DigitVal(ds[Len(ds)])) % 4
       IN Integer(neg,
            IF mod4 = 1
            THEN SubSeq(ds, 1, Len(ds) - 1) \o <<DigitChars[DigitVal(ds[Len(ds)])]>>
            ELSE Succ(ds))

\* parseInt(s, 10): leading white space, a sign, then the longest run of
\* digits; NaN when there is none
ParseInt(s) ==
  LET t == TrimStart(s)
      signed == t # <<>> /\ Head(t) \in {"+", "-"}
      ds == DigitPrefix(IF signed THEN Tail(t) ELSE t)
  IN IF ds = <<>> THEN NaN
     ELSE ToDouble(signed /\ Head(t) = "-", StripZeros(ds))

\* Number.prototype.toString() of NaN or of an integer below 2^54
NumberToString(num) ==
  IF num = NaN THEN <<"N", "a", "N">>
  ELSE IF num.neg /\ num.digits # <<"0">> THEN <<"-">> \o num.digits
  ELSE num.digits

\* num === n for a number and a natural literal (-0 === 0)
StrictEquals(num, n) ==
  /\ num # NaN
  /\ num.digits = DecString(n)
  /\ num.neg => n = 0

\* the digits of the prefixed literals 0x.., 0o.., 0b..
RadixChars ==
  <<"0", "1", "2", "3", "4", "5", "6", "7", "8", "9", "a", "b", "c", "d", "e", "f">>

UpperChars == DigitChars \o <<"A", "B", "C", "D", "E", "F">>

RadixOf(c) ==
  IF c \in {"x", "X"} THEN 16
  ELSE IF c \in {"o", "O"} THEN 8
  ELSE IF c \in {"b", "B"} THEN 2
  ELSE 0

IsRadixDigit(c, radix) ==
  \E d \in 1..radix : RadixChars[d] = c \/ UpperChars[d] = c

RadixVal(c) == (CHOOSE d \in 1..16 : RadixChars[d] = c \/ UpperChars[d] = c) - 1

\* the value of a prefixed literal of at most seven digits
RECURSIVE RadixValue(_, _)
RadixValue(s, radix) ==
  IF s = <<>> THEN 0
  ELSE RadixValue(SubSeq(s, 1, Len(s) - 1), radix) * radix + RadixVal(s[Len(s)])

\* BigInt(s): the string trimmed, empty for 0n, a prefixed literal or an
\* optionally signed run of digits; anything else is a SyntaxError
StringToBigInt(s) ==
  LET t == TrimEnd(TrimStart(s))
      signed == t # <<>> /\ Head(t) \in {"+", "-"}
      u == IF signed THEN Tail(t) ELSE t
  IN IF t = <<>> THEN Integer(FALSE, <<"0">>)
     ELSE IF Len(t) >= 2 /\ Head(t) = "0" /\ RadixOf(t[2]) # 0
     THEN IF Len(t) > 2 /\ \A i \in 3..Len(t) : IsRadixDigit(t[i], RadixOf(t[2]))
          THEN Integer(FALSE, DecString(RadixValue(SubSeq(t, 3, Len(t)), RadixOf(t[2]))))
          ELSE SyntaxError
     ELSE IF u # <<>> /\ \A i \in 1..Len(u) : u[i] \in Digit
     THEN Integer(Head(t) = "-" /\ StripZeros(u) # <<"0">>, StripZeros(u))
     ELSE SyntaxError

\* parseDecryptedValue whose bigint is converted from the parsed number
ParseDecryptedValue_BigintOfNumber(value) ==
  LET num == ParseInt(value)
      isNum == num # NaN /\ NumberToString(num) = value
  IN [value |-> value]
       @@ (IF isNum THEN [numberValue |-> num] ELSE <<>>)
       @@ (IF isNum /\ (StrictEquals(num, 0) \/ StrictEquals(num, 1))
           THEN [boolValue |-> StrictEquals(num, 1)] ELSE <<>>)
       @@ (IF num # NaN THEN [bigintValue |-> num] ELSE <<>>)

\* parseDecryptedValue without the comparison of the printed number
ParseDecryptedValue_NoPrintCheck(value) ==
  LET num == ParseInt(value)
      isNum == num # NaN
      big == StringToBigInt(value)
  IN [value |-> value]
       @@ (IF isNum THEN [numberValue |-> num] ELSE <<>>)
       @@ (IF isNum /\ (StrictEquals(num, 0) \/ StrictEquals(num, 1))
           THEN [boolValue |-> StrictEquals(num, 1)] ELSE <<>>)
       @@ (IF big # SyntaxError THEN [bigintValue |-> big] ELSE <<>>)

\* parseDecryptedValue; a field that the code leaves unset is absent from the
\* record
ParseDecryptedValue(value) ==
  LET num == ParseInt(value)
      isNum == num # NaN /\ NumberToString(num) = value
      big == StringToBigInt(value)
  IN [value |-> value]
       @@ (IF isNum THEN [numberValue |-> num] ELSE <<>>)
       @@ (IF isNum /\ (StrictEquals(num, 0) \/ StrictEquals(num, 1))
           THEN [boolValue |-> StrictEquals(num, 1)] ELSE <<>>)
       @@ (IF big # SyntaxError THEN [bigintValue |-> big] ELSE <<>>)

\* ------------------------------------------------------------------- state
VARIABLES
  instance,        \* FHEProvider.instance
  config,          \* FHEProvider.config
  provider,        \* FHEProvider.provider
  isInitialized,   \* FHEProvider.isInitialized
  initCalls,       \* the initialize() calls made so far, each a promise
  reqs,            \* the decrypt-side calls made so far, each a promise
  event,           \* a DecryptionResponse emitted and not yet dispatched
  ret,             \* outcome of the latest encrypt call
  lastCall,        \* the latest call of a function without state, with its result
  contract,        \* storage of the deployed CropYieldOptimizer
  tx,              \* the latest transaction sent to CropYieldOptimizer
  retryRun,        \* the retry(fn, maxRetries, delayMs) call in progress
  context          \* React state of FHEProviderComponent

vars ==
  <<instance, config, provider, isInitialized, initCalls, reqs, event, ret,
    lastCall, contract, tx, retryRun, context>>

appVars == <<contract, tx, retryRun, context>>

provVars == <<instance, config, provider, isInitialized>>

\* FHEProvider.isReady()
isReady == isInitialized /\ instance # Null

\* getInstance() testing the config in place of the instance
GetInstanceThrows_ChecksConfig == config = Null

\* the guard of FHEProvider.getInstance(): it throws
GetInstanceThrows == instance = Null

\* the guard of FHEProvider.getConfig(): it throws
GetConfigThrows == config = Null

\* the guard of FHEProvider.getProvider(): it throws
GetProviderThrows == provider = Null

\* initialize() without its guard
InitializeThrows_Never == FALSE

\* the guard at the head of FHEProvider.initialize(): it throws
InitializeThrows == isInitialized

\* FHEProviderComponent after its first render, mounted without a config
\* prop: the useState initial values and the context value made from them
Mounted ==
  [isInitialized |-> FALSE, currentConfig |-> Null,
   rendered |-> [instance |-> Null, isInitialized |-> FALSE, config |-> Null]]

Init ==
  /\ instance = Null
  /\ config = Null
  /\ provider = Null
  /\ isInitialized = FALSE
  /\ initCalls = <<>>
  /\ reqs = <<>>
  /\ event = Null
  /\ ret = Null
  /\ lastCall = Null
  /\ contract = Null
  /\ tx = Null
  /\ retryRun = Null
  /\ context = Mounted

\* ------------------------------------------------------- FHEProvider calls

\* initialize(cfg, prov) up to its await of createFHEInstance
Initialize(cfg, prov) ==
  /\ Len(initCalls) < MaxInits
  /\ IF InitializeThrows
     THEN /\ initCalls' = Append(initCalls, [cfg |-> cfg, status |-> "alreadyInitialized"])
          /\ UNCHANGED provVars
     ELSE /\ config' = cfg
          /\ provider' = prov
          /\ initCalls' = Append(initCalls, [cfg |-> cfg, status |-> "awaiting"])
          /\ UNCHANGED <<instance, isInitialized>>
  /\ UNCHANGED <<reqs, event, ret, lastCall, appVars>>

\* createFHEInstance resolved: the rest of initialize() runs
InitSucceed(i) ==
  /\ i \in DOMAIN initCalls
  /\ initCalls[i].status = "awaiting"
  /\ instance' = EngineOf(initCalls[i].cfg)
  /\ isInitialized' = TRUE
  /\ initCalls' = [initCalls EXCEPT ![i].status = "resolved"]
  /\ UNCHANGED <<config, provider, reqs, event, ret, lastCall, appVars>>

\* createFHEInstance rejected: initialize() rejects with the same error
InitFail(i) ==
  /\ i \in DOMAIN initCalls
  /\ initCalls[i].status = "awaiting"
  /\ initCalls' = [initCalls EXCEPT ![i].status = "engineError"]
  /\ UNCHANGED <<provVars, reqs, event, ret, lastCall, appVars>>

\* setProvider(prov)
SetProvider(prov) ==
  /\ provider' = prov
  /\ UNCHANGED <<instance, config, isInitialized, initCalls, reqs, event, ret, lastCall, appVars>>

\* reset()
Reset ==
  /\ instance' = Null
  /\ config' = Null
  /\ provider' = Null
  /\ isInitialized' = FALSE
  /\ UNCHANGED <<initCalls, reqs, event, ret, lastCall, appVars>>

\* the outcome of one encrypt call: what the caller gets and whether the
\* fhevmjs instance was asked to encrypt
EncryptOutcome(kind, outcome, engine, by) ==
  [op |-> kind, outcome |-> outcome, engine |-> engine, by |-> by,
   value |-> IF outcome = "ciphertext" THEN HexString("encrypted") ELSE Null]

\* encryptBool .. encryptAddress of FHEProvider, with the closure of
\* createFHEInstance they delegate to; engineOk is whether fhevmjs returns
EncryptResult(kind, v, engineOk) ==
  IF GetInstanceThrows
  THEN EncryptOutcome(kind, "notInitialized", FALSE, Null)
  ELSE IF RejectsValue(kind, v)
  THEN EncryptOutcome(kind, "invalidValue", FALSE, Null)
  ELSE IF engineOk
  THEN EncryptOutcome(kind, "ciphertext", TRUE, instance)
  ELSE EncryptOutcome(kind, "engineError", TRUE, instance)

Encrypt(kind, v, engineOk) ==
  /\ ret' = EncryptResult(kind, v, engineOk)
  /\ UNCHANGED <<provVars, initCalls, reqs, event, lastCall, appVars>>

\* ------------------------------------------------------- decrypt-side calls

\* handle strings a caller passes: decimal or 0x-prefixed hexadecimal digits
HandleStrings ==
  { [form |-> "dec", digits |-> <<"1">>],
    [form |-> "dec", digits |-> <<"2">>],
    [form |-> "hex", digits |-> <<"1">>] }

\* handles and values the ledger puts in a DecryptionResponse
EventHandles == {1, 2}
Scalars == {1, 12}

\* BigNumber.toString(): the decimal string of the number
BigNumberToString(n) == [form |-> "dec", digits |-> DecString(n)]

\* eventHandle.toString() === handle
HandleMatches(eventHandle, handle) == BigNumberToString(eventHandle) = handle

\* a call that has made no external call yet
NewReq(op, handle, pc) ==
  [op |-> op, handle |-> handle, pc |-> pc, calls |-> <<>>,
   listener |-> FALSE, timer |-> FALSE, result |-> Null]

\* the call made, and awaited, by a request
Calling(r, call) == [r EXCEPT !.pc = call, !.calls = Append(@, call)]

\* getConfig() and getProvider() at the head of decrypt, publicDecrypt and
\* getGatewayInfo of FHEProvider, then the first call of the function that
\* they delegate to
ProviderCall(op, handle, firstCall) ==
  /\ Len(reqs) < MaxReqs
  /\ reqs' = Append(reqs,
       IF GetConfigThrows THEN NewReq(op, handle, "notInitialized")
       ELSE IF GetProviderThrows THEN NewReq(op, handle, "noProvider")
       ELSE Calling(NewReq(op, handle, "start"), firstCall))
  /\ UNCHANGED <<provVars, initCalls, event, ret, lastCall, appVars>>

\* FHEProvider.decrypt(request) -> decrypt -> requestUserDecrypt ->
\* signDecryptRequest, up to its await of signer.getAddress()
Decrypt(handle) == ProviderCall("decrypt", handle, "signer.getAddress")

\* signer.getAddress() answered: createDecryptTypedData, then the await of
\* signer._signTypedData
GetAddressDone(i, ok) ==
  /\ i \in DOMAIN reqs
  /\ reqs[i].pc = "signer.getAddress"
  /\ reqs' = [reqs EXCEPT ![i] =
       IF ok THEN Calling(@, "signer._signTypedData")
       ELSE [@ EXCEPT !.pc = "signerError"]]
  /\ UNCHANGED <<provVars, initCalls, event, ret, lastCall, appVars>>

\* waitForDecryptResult installing its listener without arming the timeout
WaitForDecryptResult_NoTimer(r) ==
  [Calling(r, "gateway.on") EXCEPT !.pc = "waiting", !.listener = TRUE]

\* waitForDecryptResult up to the return of its promise: the timeout is armed
\* and the listener installed on a contract object of its own
WaitForDecryptResult(r) ==
  [Calling(r, "gateway.on") EXCEPT !.pc = "waiting", !.listener = TRUE, !.timer = TRUE]

\* signer._signTypedData answered: requestUserDecrypt returns the signature,
\* decrypt drops it and calls waitForDecryptResult
SignDone(i, ok) ==
  /\ i \in DOMAIN reqs
  /\ reqs[i].pc = "signer._signTypedData"
  /\ reqs' = [reqs EXCEPT ![i] =
       IF ok THEN WaitForDecryptResult(@)
       ELSE [@ EXCEPT !.pc = "signerError"]]
  /\ UNCHANGED <<provVars, initCalls, event, ret, lastCall, appVars>>

\* the ledger emits DecryptionResponse(handle, value)
Emit(handle, value) ==
  /\ event = Null
  /\ event' = [handle |-> handle, value |-> value]
  /\ UNCHANGED <<provVars, initCalls, reqs, ret, lastCall, appVars>>

\* removeAllListeners reaching the listeners of every contract object
RemovesListenerOf_All(i, j) == TRUE

\* which listeners gateway.removeAllListeners('DecryptionResponse') of
\* request i removes: those of its own contract object
RemovesListenerOf(i, j) == i = j

\* the handle lists a caller passes to decryptBatch: decimal handles
HandleLists ==
  UNION {[1..n -> {h \in HandleStrings : h.form = "dec"}] : n \in 0..MaxHandles}

\* the for loop of decryptBatch at the head of an iteration: decrypt of the
\* next handle up to its await of signer.getAddress(), or the return of the
\* results when the handles are exhausted
BatchLoop(r) ==
  IF r.idx = Len(r.handles)
  THEN [r EXCEPT !.pc = "resolved", !.result = [list |-> r.results]]
  ELSE Calling([r EXCEPT !.idx = @ + 1, !.handle = r.handles[r.idx + 1]],
               "signer.getAddress")

\* decryptBatch(handles, ...) up to its first await
DecryptBatch(handles) ==
  /\ Len(reqs) < MaxReqs
  /\ Cardinality({i \in DOMAIN reqs : reqs[i].op = "decryptBatch"}) < MaxBatches
  /\ reqs' = Append(reqs,
       BatchLoop(NewReq("decryptBatch", Null, "start")
                   @@ [handles |-> handles, idx |-> 0, results |-> <<>>]))
  /\ UNCHANGED <<provVars, initCalls, event, ret, lastCall, appVars>>

\* a batch that puts each new result in front of the earlier ones
Resolve_Unshift(r, result) ==
  IF r.op = "decryptBatch"
  THEN BatchLoop([r EXCEPT !.results = <<result>> \o @])
  ELSE [r EXCEPT !.pc = "resolved", !.result = result]

\* resolve(result) in the listener: the promises of waitForDecryptResult and
\* decrypt resolve; inside decryptBatch the result is pushed and the loop
\* goes on in the same turn of the event loop
Resolve(r, result) ==
  IF r.op = "decryptBatch"
  THEN BatchLoop([r EXCEPT !.results = Append(@, result)])
  ELSE [r EXCEPT !.pc = "resolved", !.result = result]

\* a listener that resolves without cancelling the timeout
OnDecryptionResponse_KeepsTimer(i, j, r) ==
  IF i = j
  THEN Resolve([r EXCEPT !.listener = FALSE],
               ParseDecryptedValue(DecString(event.value)))
  ELSE r

\* a listener that resolves without removing itself
OnDecryptionResponse_KeepsListener(i, j, r) ==
  IF i = j
  THEN Resolve([r EXCEPT !.timer = FALSE],
               ParseDecryptedValue(DecString(event.value)))
  ELSE r

\* the listener of request i run on the event, as seen by request j
OnDecryptionResponse(i, j, r) ==
  IF i = j
  THEN Resolve([r EXCEPT !.timer = FALSE, !.listener = FALSE],
               ParseDecryptedValue(DecString(event.value)))
  ELSE IF RemovesListenerOf(i, j) THEN [r EXCEPT !.listener = FALSE]
  ELSE r

\* a listener that accepts every event, whatever its handle
Accepting_All == {i \in DOMAIN reqs : reqs[i].listener}

\* an event delivered to the first accepting listener only
Accepting_FirstOnly ==
  {i \in DOMAIN reqs :
     /\ reqs[i].listener /\ HandleMatches(event.handle, reqs[i].handle)
     /\ \A k \in 1..(i - 1) :
          ~(reqs[k].listener /\ HandleMatches(event.handle, reqs[k].handle))}

\* the requests whose listener accepts the event
Accepting == {i \in DOMAIN reqs : reqs[i].listener /\ HandleMatches(event.handle, reqs[i].handle)}

RECURSIVE RunListeners(_, _)
RunListeners(rs, todo) ==
  IF todo = {} THEN rs
  ELSE LET i == CHOOSE k \in todo : \A m \in todo : k <= m
       IN RunListeners(
            IF rs[i].listener
            THEN [j \in DOMAIN rs |-> OnDecryptionResponse(i, j, rs[j])]
            ELSE rs,
            todo \ {i})

\* the provider dispatches the emitted event to the installed listeners
Dispatch ==
  /\ event # Null
  /\ reqs' = RunListeners(reqs, Accepting)
  /\ event' = Null
  /\ UNCHANGED <<provVars, initCalls, ret, lastCall, appVars>>

\* a timeout callback that rejects and leaves its listener installed
OnTimeout_KeepsListener(i, j, r) ==
  IF i = j THEN [r EXCEPT !.timer = FALSE, !.pc = "timeout"] ELSE r

\* a batch that skips a handle whose wait timed out and goes on
OnTimeout_BatchGoesOn(i, j, r) ==
  IF i = j
  THEN IF r.op = "decryptBatch"
       THEN BatchLoop([r EXCEPT !.timer = FALSE, !.listener = FALSE])
       ELSE [r EXCEPT !.timer = FALSE, !.listener = FALSE, !.pc = "timeout"]
  ELSE r

\* the setTimeout callback of waitForDecryptResult, as seen by request j
OnTimeout(i, j, r) ==
  IF i = j
  THEN [r EXCEPT !.timer = FALSE, !.listener = FALSE, !.pc = "timeout"]
  ELSE IF RemovesListenerOf(i, j) THEN [r EXCEPT !.listener = FALSE]
  ELSE r

\* the deadline of waiting request i elapses
Timeout(i) ==
  /\ i \in DOMAIN reqs
  /\ reqs[i].timer
  /\ reqs' = [j \in DOMAIN reqs |-> OnTimeout(i, j, reqs[j])]
  /\ UNCHANGED <<provVars, initCalls, event, ret, lastCall, appVars>>

\* FHEProvider.publicDecrypt(handle) -> publicDecrypt, up to its await of
\* gateway.isPublicDecryptAllowed(handle)
PublicDecrypt(handle) == ProviderCall("publicDecrypt", handle, "isPublicDecryptAllowed")

\* publicDecrypt reading the value whatever the predicate said
PermissionRead_Unchecked(i, isAllowed) ==
  /\ i \in DOMAIN reqs
  /\ reqs[i].pc = "isPublicDecryptAllowed"
  /\ reqs' = [reqs EXCEPT ![i] = Calling(@, "getDecryptedValue")]
  /\ UNCHANGED <<provVars, initCalls, event, ret, lastCall, appVars>>

\* isPublicDecryptAllowed answered
PermissionRead(i, isAllowed) ==
  /\ i \in DOMAIN reqs
  /\ reqs[i].pc = "isPublicDecryptAllowed"
  /\ reqs' = [reqs EXCEPT ![i] =
       IF ~isAllowed THEN [@ EXCEPT !.pc = "notAllowed"]
       ELSE Calling(@, "getDecryptedValue")]
  /\ UNCHANGED <<provVars, initCalls, event, ret, lastCall, appVars>>

\* getDecryptedValue answered
ValueRead(i, decryptedValue) ==
  /\ i \in DOMAIN reqs
  /\ reqs[i].pc = "getDecryptedValue"
  /\ reqs' = [reqs EXCEPT ![i] =
       [@ EXCEPT !.pc = "resolved",
                 !.result = ParseDecryptedValue(DecString(decryptedValue))]]
  /\ UNCHANGED <<provVars, initCalls, event, ret, lastCall, appVars>>

\* a read of publicDecrypt rejected by the ledger provider
ReadFail(i) ==
  /\ i \in DOMAIN reqs
  /\ reqs[i].pc \in {"isPublicDecryptAllowed", "getDecryptedValue"}
  /\ reqs' = [reqs EXCEPT ![i].pc = "ledgerError"]
  /\ UNCHANGED <<provVars, initCalls, event, ret, lastCall, appVars>>

\* FHEProvider.getGatewayInfo() -> getGatewayConfig, up to its await of
\* gateway.NUM_PAUSERS()
GetGatewayInfo == ProviderCall("getGatewayInfo", Null, "NUM_PAUSERS")

\* NUM_PAUSERS answered, or failed and the catch block returned
NumPausersRead(i, ok) ==
  /\ i \in DOMAIN reqs
  /\ reqs[i].pc = "NUM_PAUSERS"
  /\ reqs' = [reqs EXCEPT ![i] =
       IF ok THEN Calling(@, "kmsGeneration")
       ELSE [@ EXCEPT !.pc = "resolved", !.result = [address |-> TRUE]]]
  /\ UNCHANGED <<provVars, initCalls, event, ret, lastCall, appVars>>

\* a catch block that keeps the value already read
KmsGenerationRead_KeepsPausers(i, ok) ==
  /\ i \in DOMAIN reqs
  /\ reqs[i].pc = "kmsGeneration"
  /\ reqs' = [reqs EXCEPT ![i] =
       [@ EXCEPT !.pc = "resolved",
                 !.result = IF ok
                            THEN [address |-> TRUE, numPausers |-> TRUE, kmsGeneration |-> TRUE]
                            ELSE [address |-> TRUE, numPausers |-> TRUE]]]
  /\ UNCHANGED <<provVars, initCalls, event, ret, lastCall, appVars>>

\* kmsGeneration answered, or failed and the catch block returned
KmsGenerationRead(i, ok) ==
  /\ i \in DOMAIN reqs
  /\ reqs[i].pc = "kmsGeneration"
  /\ reqs' = [reqs EXCEPT ![i] =
       [@ EXCEPT !.pc = "resolved",
                 !.result = IF ok
                            THEN [address |-> TRUE, numPausers |-> TRUE, kmsGeneration |-> TRUE]
                            ELSE [address |-> TRUE]]]
  /\ UNCHANGED <<provVars, initCalls, event, ret, lastCall, appVars>>

\* ------------------------------------------------- functions without state

\* the characters of the enumerated raw scalar strings
Alphabet == {"0", "1", "2", "9", "-", "+", " ", ".", "a", "x"}

\* longer raw scalar strings: around 2^53, padded, suffixed, prefixed
LongStrings ==
  { DigitString(<<9, 0, 0, 7, 1, 9, 9, 2, 5, 4, 7, 4, 0, 9, 9, 1>>),
    TwoTo53,
    DigitString(<<9, 0, 0, 7, 1, 9, 9, 2, 5, 4, 7, 4, 0, 9, 9, 3>>),
    DigitString(<<9, 0, 0, 7, 1, 9, 9, 2, 5, 4, 7, 4, 0, 9, 9, 4>>),
    DigitString(<<9, 0, 0, 7, 1, 9, 9, 2, 5, 4, 7, 4, 0, 9, 9, 5>>),
    DigitString(<<1, 2, 3, 4, 5, 6, 7, 8, 9, 0>>),
    DigitString(<<0, 0, 0, 7>>),
    <<"-", "1", "2", "9", "0">>,
    <<"1", "2", "9", "a">>,
    <<" ", "1", "2", " ">>,
    <<"1", ".", "5", "0">>,
    <<"0", "x", "1", "a">> }

\* the strings handed to parseDecryptedValue
RawStrings == LongStrings \cup UNION {[1..n -> Alphabet] : n \in 0..MaxStrLen}

\* parseDecryptedValue(value) called on its own
ParseDecrypted(value) ==
  /\ lastCall' = [fn |-> "parseDecryptedValue", args |-> [value |-> value],
                  result |-> ParseDecryptedValue(value)]
  /\ UNCHANGED <<provVars, initCalls, reqs, event, ret, appVars>>

ChainIds == {cfg.chainId : cfg \in Configs}

GatewayAddresses == {cfg.gatewayAddress : cfg \in Configs}

ContractAddresses == {"0xC0", "0xC1"}

\* the addresses signer.getAddress() answers
UserAddresses == {"0xA0", "0xA1"}

\* createDecryptTypedData with the contract and user addresses exchanged
CreateDecryptTypedData_Exchanged(chainId, gatewayAddress, handle, contractAddress, userAddress) ==
  [domain |-> [name |-> "FHE Gateway", version |-> "2.0", chainId |-> chainId,
               verifyingContract |-> gatewayAddress],
   types |-> [Decrypt |-> << [name |-> "handle", type |-> "uint256"],
                             [name |-> "contractAddress", type |-> "address"],
                             [name |-> "userAddress", type |-> "address"] >>],
   message |-> [handle |-> handle, contractAddress |-> userAddress,
                userAddress |-> contractAddress]]

\* createDecryptTypedData putting the gateway in the message's contract field
CreateDecryptTypedData_GatewayAsContract(chainId, gatewayAddress, handle, contractAddress, userAddress) ==
  [domain |-> [name |-> "FHE Gateway", version |-> "2.0", chainId |-> chainId,
               verifyingContract |-> gatewayAddress],
   types |-> [Decrypt |-> << [name |-> "handle", type |-> "uint256"],
                             [name |-> "contractAddress", type |-> "address"],
                             [name |-> "userAddress", type |-> "address"] >>],
   message |-> [handle |-> handle, contractAddress |-> gatewayAddress,
                userAddress |-> userAddress]]

CreateDecryptTypedData(chainId, gatewayAddress, handle, contractAddress, userAddress) ==
  [domain |-> [name |-> "FHE Gateway", version |-> "2.0", chainId |-> chainId,
               verifyingContract |-> gatewayAddress],
   types |-> [Decrypt |-> << [name |-> "handle", type |-> "uint256"],
                             [name |-> "contractAddress", type |-> "address"],
                             [name |-> "userAddress", type |-> "address"] >>],
   message |-> [handle |-> handle, contractAddress |-> contractAddress,
                userAddress |-> userAddress]]

\* createDecryptTypedData(...) called on its own
CreateTypedData(chainId, gatewayAddress, handle, contractAddress, userAddress) ==
  /\ lastCall' = [fn |-> "createDecryptTypedData",
                  args |-> [chainId |-> chainId, gatewayAddress |-> gatewayAddress,
                            handle |-> handle, contractAddress |-> contractAddress,
                            userAddress |-> userAddress],
                  result |-> CreateDecryptTypedData(chainId, gatewayAddress, handle,
                                                    contractAddress, userAddress)]
  /\ UNCHANGED <<provVars, initCalls, reqs, event, ret, appVars>>

\* the arguments signDecryptRequest hands to signer._signTypedData, for a
\* signer whose getAddress() answers signerAddress
SignedTypedData(signerAddress, chainId, gatewayAddress, handle, contractAddress) ==
  LET typedData == CreateDecryptTypedData(chainId, gatewayAddress, handle,
                                          contractAddress, signerAddress)
  IN [domain |-> typedData.domain, types |-> typedData.types,
      message |-> typedData.message]

\* signDecryptRequest(signer, ...) with a signer that answers both calls
SignDecryptRequest(signerAddress, chainId, gatewayAddress, handle, contractAddress) ==
  /\ lastCall' = [fn |-> "signDecryptRequest",
                  args |-> [signer |-> signerAddress, chainId |-> chainId,
                            gatewayAddress |-> gatewayAddress, handle |-> handle,
                            contractAddress |-> contractAddress],
                  result |-> SignedTypedData(signerAddress, chainId, gatewayAddress,
                                             handle, contractAddress)]
  /\ UNCHANGED <<provVars, initCalls, reqs, event, ret, appVars>>

\* ------------------------------------------------------------ encryptBatch

\* what the fhevmjs instance does when asked to encrypt: it throws or
\* returns bytes
EngineResponses == {"throws", "c1", "c2"}

\* the values of the items handed to encryptBatch, by type name
BatchValues(type) ==
  IF type \notin BatchTypes \/ type = "bool" THEN {[bool |-> TRUE]}
  ELSE IF type = "address"
  THEN {[prefix |-> TRUE, hexLen |-> 40, allHex |-> TRUE],
        [prefix |-> TRUE, hexLen |-> 39, allHex |-> TRUE]}
  ELSE {BigInt(FALSE, <<1>>), BigInt(FALSE, Pow2(KindOfType(type).width))}

BatchItems ==
  UNION {{[value |-> v, type |-> t] : v \in BatchValues(t)} :
           t \in BatchTypes \cup {"uint512"}}

ItemLists == UNION {[1..n -> BatchItems] : n \in 0..MaxItems}

\* one pass of the switch of encryptBatch: the encrypt function of the
\* item's type, which awaits the closure of the instance and tags its string
EncryptItem(item, engine) ==
  IF item.type \notin BatchTypes THEN [error |-> "unsupportedType"]
  ELSE IF RejectsValue(KindOfType(item.type), item.value) THEN [error |-> "invalidValue"]
  ELSE IF engine = "throws" THEN [error |-> "engineError"]
  ELSE [data |-> HexString(engine), type |-> TypeTag(KindOfType(item.type))]

\* the head of the for loop of encryptBatch: the return when the items are
\* exhausted
EncryptBatchLoop(c) ==
  IF Len(c.results) = Len(c.args.values)
  THEN [c EXCEPT !.pc = "resolved", !.result = [list |-> c.results]]
  ELSE c

\* encryptBatch(instance, values)
EncryptBatch(values) ==
  /\ lastCall = Null
  /\ lastCall' = EncryptBatchLoop(
       [fn |-> "encryptBatch", args |-> [values |-> values], results |-> <<>>,
        engine |-> <<>>, pc |-> "running", result |-> Null])
  /\ UNCHANGED <<provVars, initCalls, reqs, event, ret, appVars>>

\* a batch that returns what it has when an item fails
EncryptBatchStep_ReturnsPartial(c, engine) ==
  LET encrypted == EncryptItem(c.args.values[Len(c.results) + 1], engine)
  IN IF "error" \in DOMAIN encrypted
     THEN [c EXCEPT !.pc = "resolved", !.result = [list |-> c.results]]
     ELSE EncryptBatchLoop([c EXCEPT !.results = Append(@, encrypted),
                                     !.engine = Append(@, engine)])

\* one iteration of the loop: the item fails and the call rejects, or its
\* EncryptedValue is pushed
EncryptBatchStep(c, engine) ==
  LET encrypted == EncryptItem(c.args.values[Len(c.results) + 1], engine)
  IN IF "error" \in DOMAIN encrypted
     THEN [c EXCEPT !.pc = "rejected", !.result = encrypted]
     ELSE EncryptBatchLoop([c EXCEPT !.results = Append(@, encrypted),
                                     !.engine = Append(@, engine)])

\* the await of the current item's encrypt function settles
EncryptBatchItem(engine) ==
  /\ lastCall # Null
  /\ lastCall.fn = "encryptBatch"
  /\ lastCall.pc = "running"
  /\ lastCall' = EncryptBatchStep(lastCall, engine)
  /\ UNCHANGED <<provVars, initCalls, reqs, event, ret, appVars>>

\* ---------------------------------------------------------- specifications

\* ------------------------------------------------------ CropYieldOptimizer

\* address(0) and the accounts that send transactions
ZeroAddress == "0x00"
Accounts == {"0xF0", "0xF1", "0xF2", "0xF3"}
Addresses == Accounts \cup {ZeroAddress}

\* the keys of the mappings that the transactions of a run can touch
RequestIds == 0..(MaxDecryptionRequests + 1)
AnalysisIds == 0..(MaxAnalyses + 1)

\* the value of a mapping entry that was never written
NoDecryptionRequest ==
  [requestId |-> 0, requester |-> ZeroAddress, encryptedValue |-> 0,
   fulfilled |-> FALSE, kmsGeneration |-> 0]
NoOptimizationResult ==
  [analysisId |-> 0, isActive |-> FALSE, participatingFarms |-> 0]

\* a transaction that reverts: the storage is as before, the reason is given
Revert(reason) ==
  [storage |-> contract, status |-> reason, returned |-> <<>>, events |-> <<>>]

\* a transaction that succeeds with new storage, return values and events
Success(storage, returned, events) ==
  [storage |-> storage, status |-> "success", returned |-> returned,
   events |-> events]

\* the transaction fn(args) sent by sender to the deployed contract
Transact(fn, sender, args, outcome) ==
  /\ contract # Null
  /\ contract' = outcome.storage
  /\ tx' = [fn |-> fn, sender |-> sender, args |-> args,
            status |-> outcome.status, returned |-> outcome.returned,
            events |-> outcome.events]
  /\ UNCHANGED <<provVars, initCalls, reqs, event, ret, lastCall, retryRun, context>>

\* modifier onlyOwner
OnlyOwner(sender) == sender = contract.owner

\* modifier onlyRegisteredFarm
OnlyRegisteredFarm(sender) == contract.registeredFarms[sender]

\* modifier onlyPauser
OnlyPauser(sender) == contract.isPauserAddress[sender]

\* whenNotPaused never reverting
WhenNotPaused_Always == TRUE

\* modifier whenNotPaused
WhenNotPaused == ~contract.isPaused

\* the PauserAdded events of the constructor's loop
PauserAddedEvents(list) ==
  [k \in 1..Len(list) |-> [event |-> "PauserAdded", pauser |-> list[k]]]

\* constructor(_pauserAddresses, _kmsGeneration)
Deploy(sender, _pauserAddresses, _kmsGeneration) ==
  /\ contract = Null
  /\ contract' =
       [owner |-> sender,
        totalFarms |-> 0,
        currentAnalysisId |-> 1,
        kmsGeneration |-> _kmsGeneration,
        pauserAddresses |-> _pauserAddresses,
        isPaused |-> FALSE,
        isPauserAddress |->
          [a \in Addresses |->
             \E k \in 1..Len(_pauserAddresses) : _pauserAddresses[k] = a],
        decryptionRequestCounter |-> 0,
        decryptionRequests |-> [id \in RequestIds |-> NoDecryptionRequest],
        farmDataRegistry |-> [a \in Addresses |-> [dataSubmitted |-> FALSE]],
        analysisResults |-> [id \in AnalysisIds |-> NoOptimizationResult],
        registeredFarms |-> [a \in Addresses |-> FALSE],
        activeFarms |-> <<>>]
  /\ tx' = [fn |-> "constructor", sender |-> sender,
            args |-> <<_pauserAddresses, _kmsGeneration>>,
            status |-> "success", returned |-> <<>>,
            events |-> PauserAddedEvents(_pauserAddresses)]
  /\ UNCHANGED <<provVars, initCalls, reqs, event, ret, lastCall, retryRun, context>>

\* addPauser(_pauser)
AddPauser(sender, _pauser) ==
  Transact("addPauser", sender, <<_pauser>>,
    IF ~OnlyOwner(sender) THEN Revert("Not authorized")
    ELSE IF _pauser = ZeroAddress THEN Revert("Invalid pauser address")
    ELSE IF contract.isPauserAddress[_pauser] THEN Revert("Already a pauser")
    ELSE Success([contract EXCEPT
                    !.pauserAddresses = Append(@, _pauser),
                    !.isPauserAddress[_pauser] = TRUE],
                 <<>>, <<[event |-> "PauserAdded", pauser |-> _pauser]>>))

\* the loop of removePauser: the first entry equal to _pauser is overwritten
\* with the last entry and the last entry is popped
RemoveFromArray(list, _pauser) ==
  IF \E k \in 1..Len(list) : list[k] = _pauser
  THEN LET i == CHOOSE k \in 1..Len(list) :
                  /\ list[k] = _pauser
                  /\ \A m \in 1..(k - 1) : list[m] # _pauser
       IN SubSeq([list EXCEPT ![i] = list[Len(list)]], 1, Len(list) - 1)
  ELSE list

\* removePauser(_pauser)
RemovePauser(sender, _pauser) ==
  Transact("removePauser", sender, <<_pauser>>,
    IF ~OnlyOwner(sender) THEN Revert("Not authorized")
    ELSE IF ~contract.isPauserAddress[_pauser] THEN Revert("Not a pauser")
    ELSE Success([contract EXCEPT
                    !.isPauserAddress[_pauser] = FALSE,
                    !.pauserAddresses = RemoveFromArray(@, _pauser)],
                 <<>>, <<[event |-> "PauserRemoved", pauser |-> _pauser]>>))

\* pause()
Pause(sender) ==
  Transact("pause", sender, <<>>,
    IF ~OnlyPauser(sender) THEN Revert("Not a pauser")
    ELSE IF contract.isPaused THEN Revert("Already paused")
    ELSE Success([contract EXCEPT !.isPaused = TRUE], <<>>,
                 <<[event |-> "ContractPaused", by |-> sender]>>))

\* unpause()
Unpause(sender) ==
  Transact("unpause", sender, <<>>,
    IF ~OnlyOwner(sender) THEN Revert("Not authorized")
    ELSE IF ~contract.isPaused THEN Revert("Not paused")
    ELSE Success([contract EXCEPT !.isPaused = FALSE], <<>>,
                 <<[event |-> "ContractUnpaused", by |-> sender]>>))

\* updateKmsGeneration(_newGeneration)
UpdateKmsGeneration(sender, _newGeneration) ==
  Transact("updateKmsGeneration", sender, <<_newGeneration>>,
    IF ~OnlyOwner(sender) THEN Revert("Not authorized")
    ELSE Success([contract EXCEPT !.kmsGeneration = _newGeneration], <<>>,
                 <<[event |-> "KmsGenerationUpdated",
                    oldGeneration |-> contract.kmsGeneration,
                    newGeneration |-> _newGeneration]>>))

\* requestDecryption(_encryptedValue)
RequestDecryption(sender, _encryptedValue) ==
  /\ contract # Null
  /\ contract.decryptionRequestCounter < MaxDecryptionRequests
  /\ Transact("requestDecryption", sender, <<_encryptedValue>>,
       IF ~OnlyRegisteredFarm(sender) THEN Revert("Farm not registered")
       ELSE LET requestId == contract.decryptionRequestCounter + 1
            IN Success([contract EXCEPT
                          !.decryptionRequestCounter = requestId,
                          !.decryptionRequests[requestId] =
                             [requestId |-> requestId,
                              requester |-> sender,
                              encryptedValue |-> _encryptedValue,
                              fulfilled |-> FALSE,
                              kmsGeneration |-> contract.kmsGeneration]],
                       <<requestId>>,
                       <<[event |-> "DecryptionRequested",
                          requestId |-> requestId, requester |-> sender]>>))

\* the require of submitDecryptionResponse: the stored request carries the id
IsRequest(_requestId) ==
  contract.decryptionRequests[_requestId].requestId = _requestId

\* submitDecryptionResponse(_requestId, _encryptedShare, _signature)
SubmitDecryptionResponse(sender, _requestId) ==
  Transact("submitDecryptionResponse", sender, <<_requestId>>,
    IF ~IsRequest(_requestId) THEN Revert("Invalid request")
    ELSE Success(contract, <<>>,
                 <<[event |-> "DecryptionResponse", requestId |-> _requestId,
                    kmsNode |-> sender]>>))

\* getPauserCount()
GetPauserCount == Len(contract.pauserAddresses)

\* isPublicDecryptAllowed()
IsPublicDecryptAllowed == ~contract.isPaused

\* isPauser(_address)
IsPauser(_address) == contract.isPauserAddress[_address]

\* registerFarm()
RegisterFarm(sender) ==
  Transact("registerFarm", sender, <<>>,
    IF ~WhenNotPaused THEN Revert("Contract is paused")
    ELSE IF contract.registeredFarms[sender] THEN Revert("Farm already registered")
    ELSE Success([contract EXCEPT
                    !.registeredFarms[sender] = TRUE,
                    !.activeFarms = Append(@, sender),
                    !.totalFarms = @ + 1],
                 <<>>, <<[event |-> "FarmRegistered", farm |-> sender]>>))

\* submitFarmData(_soilQuality, _waterUsage, _fertilizerUsage, _yieldAmount,
\* _cropType); the two amounts that no require reads, and the ciphertexts
\* that are stored, are left out
SubmitFarmData(sender, _soilQuality, _waterUsage, _cropType) ==
  Transact("submitFarmData", sender, <<_soilQuality, _waterUsage, _cropType>>,
    IF ~OnlyRegisteredFarm(sender) THEN Revert("Farm not registered")
    ELSE IF ~WhenNotPaused THEN Revert("Contract is paused")
    ELSE IF ~(_cropType > 0 /\ _cropType <= 10) THEN Revert("Invalid crop type")
    ELSE IF ~(_soilQuality > 0 /\ _waterUsage > 0) THEN Revert("Invalid input data")
    ELSE Success([contract EXCEPT !.farmDataRegistry[sender].dataSubmitted = TRUE],
                 <<>>, <<[event |-> "DataSubmitted", farm |-> sender]>>))

\* a count of the registered farms, with or without data
GetParticipatingFarmsCount_Registered == Len(contract.activeFarms)

\* getParticipatingFarmsCount()
GetParticipatingFarmsCount ==
  Cardinality({k \in 1..Len(contract.activeFarms) :
                 contract.farmDataRegistry[contract.activeFarms[k]].dataSubmitted})

\* startCollaborativeAnalysis(), with _performEncryptedAnalysis
StartCollaborativeAnalysis(sender) ==
  /\ contract # Null
  /\ contract.currentAnalysisId <= MaxAnalyses
  /\ Transact("startCollaborativeAnalysis", sender, <<>>,
       IF ~WhenNotPaused THEN Revert("Contract is paused")
       ELSE IF ~(GetParticipatingFarmsCount >= 3)
       THEN Revert("Need at least 3 farms for analysis")
       ELSE LET analysisId == contract.currentAnalysisId
                participatingFarms == GetParticipatingFarmsCount
            IN Success([contract EXCEPT
                          !.analysisResults[analysisId] =
                             [analysisId |-> analysisId,
                              isActive |-> TRUE,
                              participatingFarms |-> participatingFarms],
                          !.currentAnalysisId = @ + 1],
                       <<analysisId>>,
                       <<[event |-> "AnalysisStarted", analysisId |-> analysisId,
                          participatingFarms |-> participatingFarms],
                         [event |-> "RecommendationGenerated",
                          analysisId |-> analysisId]>>))

\* resetAnalysis(_analysisId)
ResetAnalysis(sender, _analysisId) ==
  Transact("resetAnalysis", sender, <<_analysisId>>,
    IF ~OnlyOwner(sender) THEN Revert("Not authorized")
    ELSE Success([contract EXCEPT !.analysisResults[_analysisId].isActive = FALSE],
                 <<>>, <<>>))

\* emergencyPause()
EmergencyPause(sender) ==
  Transact("emergencyPause", sender, <<>>,
    IF ~OnlyPauser(sender) THEN Revert("Not a pauser")
    ELSE Success([contract EXCEPT
                    !.isPaused = TRUE,
                    !.analysisResults =
                       [id \in AnalysisIds |->
                          IF id >= 1 /\ id < contract.currentAnalysisId
                          THEN [@[id] EXCEPT !.isActive = FALSE]
                          ELSE @[id]]],
                 <<>>, <<[event |-> "ContractPaused", by |-> sender]>>))

\* ----------------------------------------------------- FHEProviderComponent

\* what evaluating getInstance() in a render throws
RenderError == [error |-> "FHE instance not initialized. Call initialize() first."]

\* the contextValue object built in a render of the component
ContextValue ==
  IF context.isInitialized /\ GetInstanceThrows THEN RenderError
  ELSE [instance |-> IF context.isInitialized THEN instance ELSE Null,
        isInitialized |-> context.isInitialized,
        config |-> context.currentConfig]

\* the initialize callback of the context up to its await: reset() of the
\* provider when the React state says initialized, then
\* fheProvider.initialize(newConfig, provider) up to its own await
ContextInitialize(newConfig, prov) ==
  IF context.isInitialized
  THEN /\ Len(initCalls) < MaxInits
       /\ instance' = Null
       /\ isInitialized' = FALSE
       /\ config' = newConfig
       /\ provider' = prov
       /\ initCalls' = Append(initCalls, [cfg |-> newConfig, status |-> "awaiting"])
       /\ UNCHANGED <<reqs, event, ret, lastCall, appVars>>
  ELSE Initialize(newConfig, prov)

\* fheProvider.initialize resolved: the rest of the callback runs,
\* setCurrentConfig(newConfig) and setIsInitialized(true)
ContextInitSucceed(i) ==
  /\ i \in DOMAIN initCalls
  /\ initCalls[i].status = "awaiting"
  /\ instance' = EngineOf(initCalls[i].cfg)
  /\ isInitialized' = TRUE
  /\ initCalls' = [initCalls EXCEPT ![i].status = "resolved"]
  /\ context' = [context EXCEPT !.isInitialized = TRUE,
                                !.currentConfig = initCalls[i].cfg]
  /\ UNCHANGED <<config, provider, reqs, event, ret, lastCall, contract, tx, retryRun>>

\* fheProvider.initialize rejected: the callback rejects, no state is set
ContextInitFail(i) == InitFail(i)

\* the decrypt callback of the context
ContextDecrypt(handle) ==
  IF ~context.isInitialized
  THEN /\ Len(reqs) < MaxReqs
       /\ reqs' = Append(reqs, NewReq("decrypt", handle, "notInitialized"))
       /\ UNCHANGED <<provVars, initCalls, event, ret, lastCall, appVars>>
  ELSE Decrypt(handle)

\* a render of the component: the context value is built anew
Render ==
  /\ context' = [context EXCEPT !.rendered = ContextValue]
  /\ UNCHANGED <<provVars, initCalls, reqs, event, ret, lastCall, contract, tx, retryRun>>

\* ------------------------------------------------------------------- retry

\* the arguments of retry and the ways an invocation of fn settles
RetryCounts == 0..MaxRetries
DelaysMs == {100, 1000}
FnValues == {"v1", "v2"}
FnErrors == {"e1", "e2"}

\* the head of the for loop: fn is invoked and awaited, or the loop is left
\* and 'Max retries exceeded' is thrown
RetryLoop(r) ==
  IF r.i < r.maxRetries
  THEN [r EXCEPT !.pc = "fn", !.invocations = @ + 1, !.pending = @ + 1]
  ELSE [r EXCEPT !.pc = "rejected",
                 !.result = [error |-> "Max retries exceeded"]]

\* retry(fn, maxRetries, delayMs) up to its first await
Retry(maxRetries, delayMs) ==
  /\ retryRun = Null
  /\ retryRun' =
       RetryLoop([maxRetries |-> maxRetries, delayMs |-> delayMs, i |-> 0,
                  pc |-> "start", invocations |-> 0, pending |-> 0,
                  errors |-> <<>>, delay |-> 0, result |-> Null])
  /\ UNCHANGED <<provVars, initCalls, reqs, event, ret, lastCall, contract, tx, context>>

\* a catch block that waits and goes on after the last attempt as well
Caught_NeverRethrows(r, error) ==
  [r EXCEPT !.pc = "delay", !.delay = r.delayMs * (2 ^ r.i)]

\* the catch block: the error of the last attempt is thrown, after any other
\* attempt the delay delayMs * 2^i is awaited
Caught(r, error) ==
  IF r.i = r.maxRetries - 1
  THEN [r EXCEPT !.pc = "rejected", !.result = [error |-> error]]
  ELSE [r EXCEPT !.pc = "delay", !.delay = r.delayMs * (2 ^ r.i)]

\* the promise of fn() resolves: retry returns its value
FnResolves(value) ==
  /\ retryRun # Null
  /\ retryRun.pc = "fn"
  /\ retryRun' = [retryRun EXCEPT !.pc = "resolved", !.pending = @ - 1,
                                  !.result = [value |-> value]]
  /\ UNCHANGED <<provVars, initCalls, reqs, event, ret, lastCall, contract, tx, context>>

\* the promise of fn() rejects, or fn throws: the catch block runs
FnRejects(error) ==
  /\ retryRun # Null
  /\ retryRun.pc = "fn"
  /\ retryRun' = Caught([retryRun EXCEPT !.pending = @ - 1,
                                         !.errors = Append(@, error)], error)
  /\ UNCHANGED <<provVars, initCalls, reqs, event, ret, lastCall, contract, tx, context>>

\* the delay elapses: i++ and the loop goes on
DelayElapsed ==
  /\ retryRun # Null
  /\ retryRun.pc = "delay"
  /\ retryRun' = RetryLoop([retryRun EXCEPT !.i = @ + 1])
  /\ UNCHANGED <<provVars, initCalls, reqs, event, ret, lastCall, contract, tx, context>>

\* the inputs of the transactions
Deployers == {"0xF0"}
PauserLists == UNION {[1..n -> Addresses] : n \in 0..MaxPausers}
KmsGenerations == {1, 2}
EncryptedValues == {7}
SoilQualities == {0, 1}
WaterUsages == {0, 1}
CropTypes == {0, 1, 11}

\* the owner and a pauser; the accounts that run a farm
Officers == {"0xF0", "0xF1"}
Farmers == {"0xF1", "0xF2", "0xF3"}

NextPausers ==
  \/ \E s \in Deployers, list \in PauserLists : Deploy(s, list, 1)
  \/ \E s \in Accounts, p \in Addresses : AddPauser(s, p)
  \/ \E s \in Accounts, p \in Addresses : RemovePauser(s, p)

NextDecryption ==
  \/ \E s \in Deployers : Deploy(s, <<>>, 1)
  \/ \E s \in Officers : RegisterFarm(s)
  \/ \E s \in Officers, g \in KmsGenerations : UpdateKmsGeneration(s, g)
  \/ \E s \in Officers, v \in EncryptedValues : RequestDecryption(s, v)
  \/ \E s \in Officers, id \in RequestIds : SubmitDecryptionResponse(s, id)

NextFarms ==
  \/ \E s \in Deployers : Deploy(s, <<"0xF1">>, 1)
  \/ \E s \in Farmers : RegisterFarm(s)
  \/ \E s \in Farmers, q \in SoilQualities, w \in WaterUsages, c \in CropTypes :
       SubmitFarmData(s, q, w, c)
  \/ \E s \in Officers : StartCollaborativeAnalysis(s)
  \/ \E s \in Officers : Pause(s)
  \/ \E s \in Officers : Unpause(s)
  \/ \E s \in Officers : EmergencyPause(s)
  \/ \E s \in Officers, id \in AnalysisIds : ResetAnalysis(s, id)
  \/ \E s \in Officers : AddPauser(s, "0xF1")
  \/ \E s \in Officers : RemovePauser(s, "0xF1")

NextRetry ==
  \/ \E n \in RetryCounts, d \in DelaysMs : Retry(n, d)
  \/ \E v \in FnValues : FnResolves(v)
  \/ \E e \in FnErrors : FnRejects(e)
  \/ DelayElapsed

NextContext ==
  \/ \E cfg \in Configs, prov \in Providers : ContextInitialize(cfg, prov)
  \/ \E i \in 1..MaxInits : ContextInitSucceed(i)
  \/ \E i \in 1..MaxInits : ContextInitFail(i)
  \/ \E h \in HandleStrings : ContextDecrypt(h)
  \/ Render

NextLifecycle ==
  \/ \E cfg \in Configs, prov \in Providers \cup {Null} : Initialize(cfg, prov)
  \/ \E i \in 1..MaxInits : InitSucceed(i)
  \/ \E i \in 1..MaxInits : InitFail(i)
  \/ \E prov \in Providers : SetProvider(prov)
  \/ Reset

NextEncrypt ==
  \/ NextLifecycle
  \/ \E kind \in Kinds : \E v \in InputsOf(kind), ok \in BOOLEAN : Encrypt(kind, v, ok)

NextGate ==
  \/ NextLifecycle
  \/ \E h \in HandleStrings : Decrypt(h)
  \/ \E h \in HandleStrings : PublicDecrypt(h)
  \/ GetGatewayInfo

NextUserDecrypt ==
  \/ \E h \in HandleStrings : Decrypt(h)
  \/ \E i \in 1..MaxReqs, ok \in BOOLEAN : GetAddressDone(i, ok)
  \/ \E i \in 1..MaxReqs, ok \in BOOLEAN : SignDone(i, ok)
  \/ \E h \in EventHandles, v \in Scalars : Emit(h, v)
  \/ Dispatch
  \/ \E i \in 1..MaxReqs : Timeout(i)

NextRead ==
  \/ \E h \in HandleStrings : PublicDecrypt(h)
  \/ \E i \in 1..MaxReqs, isAllowed \in BOOLEAN : PermissionRead(i, isAllowed)
  \/ \E i \in 1..MaxReqs, v \in Scalars : ValueRead(i, v)
  \/ \E i \in 1..MaxReqs : ReadFail(i)
  \/ GetGatewayInfo
  \/ \E i \in 1..MaxReqs, ok \in BOOLEAN : NumPausersRead(i, ok)
  \/ \E i \in 1..MaxReqs, ok \in BOOLEAN : KmsGenerationRead(i, ok)

NextBatch ==
  \/ \E hs \in HandleLists : DecryptBatch(hs)
  \/ \E i \in 1..MaxReqs, ok \in BOOLEAN : GetAddressDone(i, ok)
  \/ \E i \in 1..MaxReqs, ok \in BOOLEAN : SignDone(i, ok)
  \/ \E h \in EventHandles, v \in Scalars : Emit(h, v)
  \/ Dispatch
  \/ \E i \in 1..MaxReqs : Timeout(i)

\* handle strings that are no number in any notation
MalformedHandles ==
  { [form |-> "dec", digits |-> <<"z">>],
    [form |-> "hex", digits |-> <<>>] }

NextFormat ==
  \/ \E h \in HandleStrings \cup MalformedHandles : Decrypt(h)
  \/ \E i \in 1..MaxReqs, ok \in BOOLEAN : GetAddressDone(i, ok)

NextEncryptBatch ==
  \/ \E values \in ItemLists : EncryptBatch(values)
  \/ \E engine \in EngineResponses : EncryptBatchItem(engine)

NextPure ==
  \/ \E value \in RawStrings : ParseDecrypted(value)
  \/ \E c \in ChainIds, g \in GatewayAddresses, h \in HandleStrings,
        a \in ContractAddresses, u \in UserAddresses :
       CreateTypedData(c, g, h, a, u)
  \/ \E u \in UserAddresses, c \in ChainIds, g \in GatewayAddresses,
        h \in HandleStrings, a \in ContractAddresses :
       SignDecryptRequest(u, c, g, h, a)

Next ==
  \/ NextEncrypt \/ NextUserDecrypt \/ NextRead \/ NextBatch \/ NextPure
  \/ NextFormat \/ NextEncryptBatch
  \/ NextContext \/ NextRetry \/ NextPausers \/ NextDecryption \/ NextFarms

\* the provider after `await initialize(cfg, prov)` on a new FHEProvider
InitReady ==
  /\ \E cfg \in Configs :
       /\ config = cfg
       /\ instance = EngineOf(cfg)
       /\ initCalls = <<[cfg |-> cfg, status |-> "resolved"]>>
  /\ provider \in Providers
  /\ isInitialized = TRUE
  /\ reqs = <<>>
  /\ event = Null
  /\ ret = Null
  /\ lastCall = Null
  /\ contract = Null
  /\ tx = Null
  /\ retryRun = Null
  /\ context = Mounted

\* every call of every component, from a new FHEProvider
Spec == Init /\ [][Next]_vars

\* the provider's life cycle alone
SpecLifecycle == Init /\ [][NextLifecycle]_vars

\* the life cycle and the encrypt methods
SpecEncrypt == Init /\ [][NextEncrypt]_vars

\* the life cycle and the entry of the decrypt-side methods
SpecGate == Init /\ [][NextGate]_vars

\* authorization-gated decryption on an initialized provider
SpecUserDecrypt == InitReady /\ [][NextUserDecrypt]_vars

\* the same, with the event loop running every armed setTimeout callback
SpecUserDecryptFair ==
  SpecUserDecrypt /\ \A i \in 1..MaxReqs : WF_vars(Timeout(i))

\* decrypt called with well-formed and malformed handles
SpecFormat == InitReady /\ [][NextFormat]_vars

\* encryptBatch called as a function of the module
SpecEncryptBatch == Init /\ [][NextEncryptBatch]_vars

\* the functions of decryption.ts that keep no state
SpecPure == Init /\ [][NextPure]_vars

\* decryptBatch called as a function of the module
SpecBatch == Init /\ [][NextBatch]_vars

\* the ledger reads (publicDecrypt, getGatewayInfo) on an initialized provider
SpecRead == InitReady /\ [][NextRead]_vars

\* FHEProviderComponent with its FHEProvider
SpecContext == Init /\ [][NextContext]_vars

\* one call of retry
SpecRetry == Init /\ [][NextRetry]_vars

\* CropYieldOptimizer: deployment and the pauser list
SpecPausers == Init /\ [][NextPausers]_vars

\* CropYieldOptimizer: decryption requests and responses
SpecDecryption == Init /\ [][NextDecryption]_vars

\* CropYieldOptimizer: farms, analyses and pausing
SpecFarms == Init /\ [][NextFarms]_vars

\* ------------------------------------------------------------------ claims

Awaiting == {i \in DOMAIN initCalls : initCalls[i].status = "awaiting"}

\* C1: in every state where the provider is not ready, every encrypt method,
\* for every argument, fails with the not-initialized error and does not call
\* the encryption engine.
C1_EncryptNeedsReady ==
  ~isReady =>
    \A kind \in Kinds : \A v \in InputsOf(kind), ok \in BOOLEAN :
      /\ EncryptResult(kind, v, ok).outcome = "notInitialized"
      /\ ~EncryptResult(kind, v, ok).engine

\* an encrypt call was refused while an initialization was still in progress
C1_Witness ==
  /\ ret # Null
  /\ ret.outcome = "notInitialized"
  /\ ~isReady
  /\ Awaiting # {}

\* the request record appended by the step
Latest(rs) == rs[Len(rs)]

IsProviderCall ==
  \/ \E h \in HandleStrings : Decrypt(h) \/ PublicDecrypt(h)
  \/ GetGatewayInfo

\* C2: decrypt, publicDecrypt and getGatewayInfo called on a provider that is
\* not ready fail and make no signer request, no ledger read and no event
\* subscription.
C2_DecryptNeedsReady ==
  [][(IsProviderCall /\ ~isReady) =>
       /\ Latest(reqs').pc \in {"notInitialized", "noProvider"}
       /\ Latest(reqs').calls = <<>>
       /\ ~Latest(reqs').listener]_vars

\* C3: the deadline of a waiting request rejects it with the timeout error
\* and removes its listener; from then on the request never changes, and a
\* confirmation for its handle that is dispatched finds no listener of it.
C3_LateConfirmationDropped ==
  [][\A i \in DOMAIN reqs :
       /\ Timeout(i) =>
            /\ reqs'[i].pc = "timeout"
            /\ ~reqs'[i].listener
       /\ reqs[i].pc = "timeout" =>
            /\ reqs'[i] = reqs[i]
            /\ event # Null => i \notin Accepting]_vars

\* a confirmation for the handle of a timed-out request is about to be
\* dispatched
C3_Witness ==
  \E i \in DOMAIN reqs :
    /\ reqs[i].pc = "timeout"
    /\ event # Null
    /\ HandleMatches(event.handle, reqs[i].handle)

IsDispatch == event # Null /\ event' = Null

\* C4: of two requests waiting on distinct handles, a dispatched confirmation
\* resolves the one whose handle it carries, with the normalized value of that
\* confirmation, and a step that settles one of them (confirmation or
\* timeout) leaves the other exactly as it was.
C4_DistinctHandlesIndependent ==
  [][\A i, j \in DOMAIN reqs :
       (/\ i # j
        /\ reqs[i].pc = "waiting"
        /\ reqs[j].pc = "waiting"
        /\ reqs[i].handle # reqs[j].handle) =>
         /\ IsDispatch =>
              IF HandleMatches(event.handle, reqs[i].handle)
              THEN /\ reqs'[i].pc = "resolved"
                   /\ reqs'[i].result.value = DecString(event.value)
                   /\ reqs'[i].result.numberValue = Integer(FALSE, DecString(event.value))
              ELSE reqs'[i] = reqs[i]
         /\ reqs'[i].pc # "waiting" => reqs'[j] = reqs[j]]_vars

\* the later of two requests on distinct handles was confirmed first and the
\* earlier one is still waiting, with its listener
C4_Witness ==
  /\ Len(reqs) = 2
  /\ reqs[1].handle # reqs[2].handle
  /\ reqs[1].pc = "waiting" /\ reqs[1].listener
  /\ reqs[2].pc = "resolved"

LedgerSubmissions(calls) ==
  {k \in 1..Len(calls) :
     calls[k] \notin {"signer.getAddress", "signer._signTypedData", "gateway.on"}}

\* C5: a decrypt that is waiting for its confirmation has signed the typed
\* message, then submitted the signature to the ledger, and only then
\* subscribed.
C5_SubmitBeforeWait ==
  \A i \in DOMAIN reqs :
    (reqs[i].op = "decrypt" /\ reqs[i].listener) =>
      \E s, k, w \in 1..Len(reqs[i].calls) :
        /\ s < k /\ k < w
        /\ reqs[i].calls[s] = "signer._signTypedData"
        /\ k \in LedgerSubmissions(reqs[i].calls)
        /\ reqs[i].calls[w] = "gateway.on"

\* C6: publicDecrypt reads the permission first; refused, it fails without
\* reading the value; permitted, it reads the value once and returns it
\* normalized; it never asks for a signature nor subscribes to events.
C6_PublicDecryptGated ==
  [][\A i \in DOMAIN reqs :
       reqs[i].op = "publicDecrypt" =>
         /\ reqs'[i].calls \in
              { <<"isPublicDecryptAllowed">>,
                <<"isPublicDecryptAllowed", "getDecryptedValue">> }
         /\ ~reqs'[i].listener /\ ~reqs'[i].timer
         /\ \A isAllowed \in BOOLEAN :
              PermissionRead(i, isAllowed) =>
                IF isAllowed
                THEN reqs'[i].pc = "getDecryptedValue"
                ELSE /\ reqs'[i].pc = "notAllowed"
                     /\ reqs'[i].calls = <<"isPublicDecryptAllowed">>
         /\ reqs[i].pc = "notAllowed" => reqs'[i] = reqs[i]
         /\ \A v \in Scalars :
              ValueRead(i, v) =>
                /\ reqs'[i].pc = "resolved"
                /\ reqs'[i].calls = <<"isPublicDecryptAllowed", "getDecryptedValue">>
                /\ reqs'[i].result.value = DecString(v)
                /\ reqs'[i].result.numberValue = Integer(FALSE, DecString(v))
                /\ reqs'[i].result.bigintValue = Integer(FALSE, DecString(v))
                /\ ("boolValue" \in DOMAIN reqs'[i].result) = (v \in {0, 1})]_vars

\* one publicDecrypt was refused and another returned a value
C6_Witness ==
  \E i, j \in DOMAIN reqs :
    /\ reqs[i].op = "publicDecrypt" /\ reqs[i].pc = "notAllowed"
    /\ reqs[j].op = "publicDecrypt" /\ reqs[j].pc = "resolved"

\* C7: initialize on a ready provider fails with the already-initialized error
\* and changes neither config, instance, ledger provider nor readiness.
C7_InitializeOnReadyRejected ==
  [][\A cfg \in Configs, prov \in Providers \cup {Null} :
       (isReady /\ Initialize(cfg, prov)) =>
         /\ Latest(initCalls').status = "alreadyInitialized"
         /\ UNCHANGED <<config, instance, provider, isInitialized>>]_vars

\* an initialize call was refused by a ready provider
C7_Witness ==
  /\ isReady
  /\ \E i \in DOMAIN initCalls : initCalls[i].status = "alreadyInitialized"

\* C8: at most one initialize is awaiting engine construction, and the config
\* is the one of that call.
C8_SingleInitInFlight ==
  /\ Cardinality(Awaiting) <= 1
  /\ \A i \in Awaiting : config \in {initCalls[i].cfg, Null}

\* C9: reset releases instance, config and ledger provider and makes isReady
\* false; as long as no initialize was accepted since (the config is still
\* released) the provider is uninitialized, so the initialize that follows is
\* accepted; and an accepted initialize whose construction succeeds makes the
\* provider ready.
C9_ResetReturnsToUninitialized ==
  [][/\ Reset => (instance' = Null /\ config' = Null /\ provider' = Null /\ ~isReady')
     /\ config' = Null => (~isReady' /\ ~InitializeThrows')
     /\ \A i \in Awaiting : InitSucceed(i) => isReady']_vars

\* C10: a failed engine construction rejects its initialize call with the
\* engine's error, leaves the provider not ready, and a retried initialize is
\* accepted.
C10_FailedInitRetryable ==
  [][\A i \in Awaiting :
       InitFail(i) =>
         /\ initCalls'[i].status = "engineError"
         /\ ~isReady'
         /\ ~InitializeThrows']_vars

\* C11: the initialize call whose completion makes the provider ready is the
\* one whose config getConfig() returns, and while the provider stays ready
\* (no reset) getConfig() keeps returning that config.
C11_ConfigOfReadyingCall ==
  [][/\ \A i \in Awaiting :
          (InitSucceed(i) /\ ~isReady) => config' = initCalls[i].cfg
     /\ (isReady /\ isReady') => config' = config]_vars

InRangeOfWidth(v, w) == ~IsNegative(v) /\ Len(v.mag) <= w \div 8

\* C12: on a provider with an engine, encrypting v as uint<w> reaches the
\* engine exactly when 0 <= v <= 2^w - 1 (and succeeds when the engine
\* returns); every other v fails with the range error of that width without
\* an engine call.
C12_UintRange ==
  ~GetInstanceThrows =>
    \A w \in Widths : \A v \in IntInputs, ok \in BOOLEAN :
      LET r == EncryptResult(UintKind(w), v, ok)
      IN IF InRangeOfWidth(v, w)
         THEN r.engine /\ r.outcome = (IF ok THEN "ciphertext" ELSE "engineError")
         ELSE ~r.engine /\ r.outcome = "invalidValue" /\ r.op = UintKind(w)

\* a uint256 encryption was refused for its range by a ready provider
C12_Witness ==
  /\ isReady
  /\ ret # Null
  /\ ret.op = UintKind(256)
  /\ ret.outcome = "invalidValue"

Listening == {i \in DOMAIN reqs : reqs[i].listener}

\* C13: at most one DecryptionResponse subscription is active at any moment.
C13_SingleSubscription == Cardinality(Listening) <= 1

Outstanding == {i \in DOMAIN reqs : reqs[i].pc = "waiting"}

\* C14: a request has a listener and an armed timeout only while it waits, so
\* when no wait is outstanding no listener and no pending entry is left.
C14_NoListenerLeft ==
  /\ \A i \in DOMAIN reqs : (reqs[i].listener \/ reqs[i].timer) => i \in Outstanding
  /\ Outstanding = {} => Listening = {}

\* two waits were started, one has resolved and the other timed out
C14_Witness ==
  /\ Outstanding = {}
  /\ \E i, j \in DOMAIN reqs :
       /\ reqs[i].pc = "resolved" /\ reqs[i].op = "decrypt"
       /\ reqs[j].pc = "timeout"

\* C15: every request that waits for its confirmation is eventually resolved
\* or rejected with the timeout error.
C15_WaitSettles ==
  \A i \in 1..MaxReqs :
    (IF i \in DOMAIN reqs THEN reqs[i].pc = "waiting" ELSE FALSE)
      ~> (IF i \in DOMAIN reqs THEN reqs[i].pc \in {"resolved", "timeout"} ELSE FALSE)

\* a wait on a handle that no confirmation can match was ended by its deadline
C15_Witness ==
  \E i \in DOMAIN reqs :
    /\ reqs[i].pc = "timeout"
    /\ \A h \in EventHandles : ~HandleMatches(h, reqs[i].handle)

Batches == {i \in 1..MaxReqs : IF i \in DOMAIN reqs THEN reqs[i].op = "decryptBatch" ELSE FALSE}

BatchFailed(r) == r.pc \in {"signerError", "timeout"}

\* the external calls of request r are those of its first idx handles, the
\* last of them begun only when every earlier handle has its result
BatchInOrder(r) ==
  /\ Len(r.results) = (IF r.pc = "resolved" THEN Len(r.handles) ELSE r.idx - 1)
  /\ Len(r.calls) <= 3 * r.idx
  /\ Len(r.calls) > 3 * (r.idx - 1) \/ r.idx = 0
  /\ r.idx > 0 => r.handle = r.handles[r.idx]
  /\ r.pc = "resolved" => r.result = [list |-> r.results]

\* C16: decryptBatch takes its handles in input order, starts the signature
\* request of a handle only when the handle before it has resolved, and on
\* success returns one normalized value per handle, entry k being the value
\* confirmed for handle k.
C16_BatchInOrder ==
  [][\A i \in Batches :
       LET r == reqs[i]
           r2 == reqs'[i]
       IN /\ BatchInOrder(r) /\ BatchInOrder(r2)
          /\ r2.handles = r.handles
          /\ r2.idx \in {r.idx, r.idx + 1}
          /\ r2.results # r.results =>
               /\ IsDispatch
               /\ r.pc = "waiting"
               /\ HandleMatches(event.handle, r.handles[r.idx])
               /\ r2.results = Append(r.results,
                                      ParseDecryptedValue(DecString(event.value)))
          /\ r2.idx # r.idx => r2.results # r.results]_vars

\* a batch of two handles has returned two different values
C16_Witness ==
  \E i \in Batches :
    /\ reqs[i].pc = "resolved"
    /\ Len(reqs[i].handles) = 2
    /\ reqs[i].result.list[1] # reqs[i].result.list[2]

\* C17: when the decryption of a handle of a batch fails, the batch call
\* rejects with that error at once, returns none of the results it had, and
\* makes no call for the handles after the failing one.
C17_BatchFailsWhole ==
  [][\A i \in Batches :
       LET r == reqs[i]
           r2 == reqs'[i]
       IN /\ BatchFailed(r) => r2 = r
          /\ Timeout(i) => r2.pc = "timeout"
          /\ (GetAddressDone(i, FALSE) \/ SignDone(i, FALSE)) => r2.pc = "signerError"
          /\ BatchFailed(r2) =>
               /\ r2.result = Null
               /\ r2.calls = r.calls
               /\ r2.idx = r.idx
               /\ ~r2.listener /\ ~r2.timer]_vars

\* the second handle of a batch timed out after the first had resolved
C17_Witness ==
  \E i \in Batches :
    /\ reqs[i].pc = "timeout"
    /\ reqs[i].idx = 2
    /\ Len(reqs[i].results) = 1
    /\ reqs[i].result = Null

Called(fn) == IF lastCall = Null THEN FALSE ELSE lastCall.fn = fn

\* s without its minus sign
Unsigned(s) == IF s # <<>> /\ Head(s) = "-" THEN Tail(s) ELSE s

\* s is the decimal notation of an integer: digits without leading zeros
\* after an optional minus sign, and not "-0"
IsDecimalInteger(s) ==
  LET body == Unsigned(s)
  IN /\ body # <<>>
     /\ \A i \in 1..Len(body) : body[i] \in Digit
     /\ Len(body) > 1 => Head(body) # "0"
     /\ body = <<"0">> => body = s

\* the integer is a double: below 2^53, or even (below 2^54)
IsDouble(body) == DigitsLess(body, TwoTo53) \/ DigitVal(body[Len(body)]) % 2 = 0

PrintsBack(s) == IsDecimalInteger(s) /\ IsDouble(Unsigned(s))

\* C18: parseDecryptedValue(s) returns value = s; numberValue is present
\* exactly when s is what printing the parsed integer gives, and is that
\* integer; boolValue is present exactly for "0" (false) and "1" (true).
C18_ParseFields ==
  Called("parseDecryptedValue") =>
    LET s == lastCall.args.value
        r == lastCall.result
    IN /\ r.value = s
       /\ ("numberValue" \in DOMAIN r) = PrintsBack(s)
       /\ PrintsBack(s) => r.numberValue = Integer(s # Unsigned(s), Unsigned(s))
       /\ ("boolValue" \in DOMAIN r) = (s \in {<<"0">>, <<"1">>})
       /\ s = <<"0">> => r.boolValue = FALSE
       /\ s = <<"1">> => r.boolValue = TRUE

\* "2" was normalized: a numberValue and no boolValue
C18_Witness ==
  /\ Called("parseDecryptedValue")
  /\ lastCall.args.value = <<"2">>
  /\ "numberValue" \in DOMAIN lastCall.result
  /\ "boolValue" \notin DOMAIN lastCall.result

\* Number.MAX_SAFE_INTEGER, 2^53 - 1
MaxSafeInteger == DigitString(<<9, 0, 0, 7, 1, 9, 9, 2, 5, 4, 7, 4, 0, 9, 9, 1>>)

\* C19: for the decimal string of a non-negative integer n, bigintValue is n
\* whatever the size of n, and numberValue is n when n is at most
\* Number.MAX_SAFE_INTEGER.
C19_DecimalRoundTrip ==
  Called("parseDecryptedValue") =>
    LET s == lastCall.args.value
        r == lastCall.result
    IN (IsDecimalInteger(s) /\ s = Unsigned(s)) =>
         /\ "bigintValue" \in DOMAIN r
         /\ r.bigintValue = Integer(FALSE, s)
         /\ ~DigitsLess(MaxSafeInteger, s) =>
              /\ "numberValue" \in DOMAIN r
              /\ r.numberValue = Integer(FALSE, s)

\* 2^53 + 1 was normalized: a bigintValue and no numberValue
C19_Witness ==
  /\ Called("parseDecryptedValue")
  /\ IsDecimalInteger(lastCall.args.value)
  /\ lastCall.args.value = Unsigned(lastCall.args.value)
  /\ DigitsLess(TwoTo53, lastCall.args.value)
  /\ "bigintValue" \in DOMAIN lastCall.result
  /\ "numberValue" \notin DOMAIN lastCall.result

\* C20: createDecryptTypedData returns the domain {FHE Gateway, 2.0, chainId,
\* gatewayAddress}, the fields handle, contractAddress, userAddress in that
\* order and the three inputs as the message; signDecryptRequest signs that
\* domain, schema and message with userAddress the address of the signer.
C20_TypedData ==
  LET a == lastCall.args
      r == lastCall.result
      domain == [name |-> "FHE Gateway", version |-> "2.0",
                 chainId |-> a.chainId, verifyingContract |-> a.gatewayAddress]
      fields == <<"handle", "contractAddress", "userAddress">>
  IN /\ Called("createDecryptTypedData") =>
          /\ r.domain = domain
          /\ [k \in 1..Len(r.types.Decrypt) |-> r.types.Decrypt[k].name] = fields
          /\ r.message = [handle |-> a.handle, contractAddress |-> a.contractAddress,
                          userAddress |-> a.userAddress]
     /\ Called("signDecryptRequest") =>
          /\ r.domain = domain
          /\ [k \in 1..Len(r.types.Decrypt) |-> r.types.Decrypt[k].name] = fields
          /\ r.message = [handle |-> a.handle, contractAddress |-> a.contractAddress,
                          userAddress |-> a.signer]

\* a request was signed for a hexadecimal handle
C20_Witness ==
  /\ Called("signDecryptRequest")
  /\ lastCall.args.handle.form = "hex"
  /\ lastCall.result.message.userAddress = lastCall.args.signer

TypedDataInputs ==
  [chainId : ChainIds, gatewayAddress : GatewayAddresses, handle : HandleStrings,
   contractAddress : ContractAddresses, userAddress : UserAddresses]

\* C21: the typed data built for one (network, gateway, handle, contract,
\* account) differs from the typed data of every other tuple: in the domain
\* when network or gateway differ, in the message when handle, contract or
\* account differ.
C21_TypedDataInjective ==
  Called("createDecryptTypedData") =>
    \A b \in TypedDataInputs :
      LET a == lastCall.args
          r == lastCall.result
          t == CreateDecryptTypedData(b.chainId, b.gatewayAddress, b.handle,
                                      b.contractAddress, b.userAddress)
      IN /\ (a.chainId # b.chainId \/ a.gatewayAddress # b.gatewayAddress)
              => t.domain # r.domain
         /\ (a.handle # b.handle \/ a.contractAddress # b.contractAddress
               \/ a.userAddress # b.userAddress)
              => t.message # r.message
         /\ a # b => t # r

\* typed data was built for a decimal handle
C21_Witness ==
  /\ Called("createDecryptTypedData")
  /\ lastCall.args.handle.form = "dec"
  /\ lastCall.result.message.contractAddress = lastCall.args.contractAddress

GatewayReads ==
  {i \in 1..MaxReqs :
     IF i \in DOMAIN reqs
     THEN reqs[i].op = "getGatewayInfo" /\ reqs[i].calls # <<>>
     ELSE FALSE}

C27_InstanceMatchesConfig ==
  isReady => (~GetConfigThrows /\ instance = EngineOf(config))

\* C28: the completion of a construction that was started before a reset
\* (config is null: no initialize was issued since) installs no instance and
\* leaves the provider not ready.
C28_StaleCompletionIgnored ==
  [][\A i \in Awaiting :
       (InitSucceed(i) /\ config = Null) => (instance' = Null /\ ~isReady')]_vars

Signing ==
  {i \in 1..MaxReqs :
     IF i \in DOMAIN reqs
     THEN reqs[i].pc \in {"signer.getAddress", "signer._signTypedData"}
     ELSE FALSE}

\* C29: a confirmation dispatched for the handle of a request that is still
\* signing is not lost: the dispatch is recorded for the request.
C29_EarlyConfirmationKept ==
  [][IsDispatch =>
       \A i \in Signing :
         HandleMatches(event.handle, reqs[i].handle) => reqs'[i] # reqs[i]]_vars

\* C30: one confirmation for a handle resolves every request that waits for
\* that handle, all with the same value.
C30_SameHandleBothResolve ==
  [][IsDispatch =>
       \A i, j \in Outstanding :
         (/\ i # j
          /\ reqs[i].handle = reqs[j].handle
          /\ HandleMatches(event.handle, reqs[i].handle)) =>
           /\ reqs'[i].pc = "resolved" /\ reqs'[j].pc = "resolved"
           /\ reqs'[i].result = ParseDecryptedValue(DecString(event.value))
           /\ reqs'[j].result = reqs'[i].result]_vars

\* two requests for the same handle were resolved with the same value
C30_Witness ==
  \E i, j \in DOMAIN reqs :
    /\ i # j
    /\ reqs[i].handle = reqs[j].handle
    /\ reqs[i].pc = "resolved" /\ reqs[j].pc = "resolved"
    /\ reqs[i].result = reqs[j].result
    /\ ~reqs[i].listener /\ ~reqs[j].listener

\* C22: every successful encrypt method of FHEProvider returns a record
\* with the hex ciphertext in data and the tag of the requested kind in type.
C22_EncryptReturnsTagged ==
  ~GetInstanceThrows =>
    \A kind \in Kinds : \A v \in InputsOf(kind) :
      LET r == EncryptResult(kind, v, TRUE)
      IN r.outcome = "ciphertext" =>
           /\ DOMAIN r.value = {"data", "type"}
           /\ r.value.type = TypeTag(kind)

HexDigits ==
  Digit \cup {"a", "b", "c", "d", "e", "f", "A", "B", "C", "D", "E", "F"}

\* the handle string is a number in decimal or 0x notation
IsHandleFormat(h) ==
  /\ h.digits # <<>>
  /\ \A k \in 1..Len(h.digits) :
       h.digits[k] \in (IF h.form = "hex" THEN HexDigits ELSE Digit)

\* C23: a decrypt request with a malformed handle is rejected before any
\* signer request, ledger call or subscription.
C23_MalformedRejectedEarly ==
  \A i \in DOMAIN reqs :
    ~IsHandleFormat(reqs[i].handle) => (reqs[i].calls = <<>> /\ ~reqs[i].listener)

EncryptBatchCalls == IF Called("encryptBatch") THEN {lastCall} ELSE {}

\* the tag the interface documents for a type name
DocumentedTag(type) ==
  CASE type = "bool" -> "ebool"
    [] type = "uint8" -> "euint8"
    [] type = "uint16" -> "euint16"
    [] type = "uint32" -> "euint32"
    [] type = "uint64" -> "euint64"
    [] type = "uint128" -> "euint128"
    [] type = "uint256" -> "euint256"
    [] type = "address" -> "eaddress"

\* item k of the call is of a supported type and passes its validation
ValidItem(item) ==
  /\ item.type \in BatchTypes
  /\ ~RejectsValue(KindOfType(item.type), item.value)

\* C25: an encryptBatch call whose items are all valid and encrypted by the
\* engine returns one entry per item, entry k holding the engine's bytes for
\* item k under the tag of item k's kind; the eight tags are pairwise distinct.
C25_BatchTagged ==
  /\ \A k1, k2 \in Kinds : k1 # k2 => TypeTag(k1) # TypeTag(k2)
  /\ \A c \in EncryptBatchCalls :
       /\ c.pc = "resolved" =>
            /\ Len(c.result.list) = Len(c.args.values)
            /\ \A k \in 1..Len(c.args.values) :
                 c.result.list[k] = [data |-> HexString(c.engine[k]),
                                     type |-> DocumentedTag(c.args.values[k].type)]
       /\ c.pc = "rejected" =>
            \/ ~ValidItem(c.args.values[Len(c.results) + 1])
            \/ c.result.error = "engineError"

\* two items of different kinds got the same bytes and different tags
C25_Witness ==
  \E c \in EncryptBatchCalls :
    /\ c.pc = "resolved"
    /\ Len(c.result.list) = 2
    /\ c.result.list[1].data = c.result.list[2].data
    /\ c.result.list[1].type # c.result.list[2].type

\* C26: an encryptBatch call with an item of unsupported kind, an invalid
\* value or an engine failure rejects with the error of the first such item
\* and returns no list.
C26_BatchRejectsWhole ==
  \A c \in EncryptBatchCalls :
    LET k == Len(c.results) + 1
    IN /\ \A m \in 1..Len(c.results) :
            ValidItem(c.args.values[m]) /\ c.engine[m] # "throws"
       /\ c.pc = "resolved" =>
            /\ Len(c.results) = Len(c.args.values)
            /\ \A m \in 1..Len(c.args.values) : ValidItem(c.args.values[m])
       /\ c.pc = "running" => c.result = Null
       /\ c.pc = "rejected" =>
            /\ DOMAIN c.result = {"error"}
            /\ c.result.error =
                 (IF c.args.values[k].type \notin BatchTypes THEN "unsupportedType"
                  ELSE IF ~ValidItem(c.args.values[k]) THEN "invalidValue"
                  ELSE "engineError")

\* the second item failed in the engine after the first was encrypted
C26_Witness ==
  \E c \in EncryptBatchCalls :
    /\ c.pc = "rejected"
    /\ Len(c.results) = 1
    /\ c.result.error = "engineError"

\* C31: a decryption wait settles once: a request enters resolved or timeout
\* only from waiting; once resolved its timeout is cancelled and no step,
\* later confirmations for its handle included, changes it; once timed out no
\* step resolves it.
C31_SettlesOnce ==
  [][\A i \in DOMAIN reqs :
       /\ reqs[i].pc = "resolved" =>
            /\ ~reqs[i].timer
            /\ reqs'[i] = reqs[i]
       /\ reqs[i].pc = "timeout" => reqs'[i].pc = "timeout"
       /\ (reqs'[i].pc \in {"resolved", "timeout"} /\ reqs'[i].pc # reqs[i].pc) =>
            reqs[i].pc = "waiting"]_vars

\* a second confirmation for the handle of a resolved request is about to be
\* dispatched
C31_Witness ==
  \E i \in DOMAIN reqs :
    /\ reqs[i].pc = "resolved"
    /\ event # Null
    /\ HandleMatches(event.handle, reqs[i].handle)

\* the number a handle string denotes
HandleValue(h) == RadixValue(h.digits, IF h.form = "hex" THEN 16 ELSE 10)

\* C32: a dispatched confirmation whose handle is another number than the
\* handle of a waiting request leaves that request as it was: still waiting,
\* timeout armed, listener installed.
C32_OtherHandleUntouched ==
  [][IsDispatch =>
       \A i \in DOMAIN reqs :
         (reqs[i].pc = "waiting" /\ HandleValue(reqs[i].handle) # event.handle) =>
           /\ reqs'[i] = reqs[i]
           /\ reqs'[i].timer
           /\ reqs'[i].listener]_vars

\* a request waits, with timeout and listener, while a confirmation for
\* another handle is about to be dispatched
C32_Witness ==
  \E i \in DOMAIN reqs :
    /\ reqs[i].pc = "waiting" /\ reqs[i].timer /\ reqs[i].listener
    /\ event # Null
    /\ HandleValue(reqs[i].handle) # event.handle

\* C33: a dispatched confirmation resolves every waiting request whose handle
\* denotes the number of the confirmation's handle, in decimal or in 0x
\* notation.
C33_SameNumberResolves ==
  [][IsDispatch =>
       \A i \in DOMAIN reqs :
         (reqs[i].pc = "waiting" /\ HandleValue(reqs[i].handle) = event.handle) =>
           reqs'[i].pc = "resolved"]_vars

\* the transaction of the step emitted DecryptionResponse for the request id
EmitsDecryptionResponse(id) ==
  \E k \in 1..Len(tx'.events) :
    /\ tx'.events[k].event = "DecryptionResponse"
    /\ tx'.events[k].requestId = id

\* C34: submitDecryptionResponse succeeds, emitting DecryptionResponse, only
\* for an id that requestDecryption returned before, and reverts with
\* 'Invalid request' for every other id, 0 and ids above the counter
\* included; requestDecryption returns 1, 2, 3, ... in turn.
C34_ResponseOnlyForIssued ==
  [][contract # Null =>
       /\ \A s \in Accounts, id \in RequestIds :
            SubmitDecryptionResponse(s, id) =>
              IF id >= 1 /\ id <= contract.decryptionRequestCounter
              THEN tx'.status = "success" /\ EmitsDecryptionResponse(id)
              ELSE tx'.status = "Invalid request" /\ tx'.events = <<>>
       /\ \A s \in Accounts, v \in EncryptedValues :
            (RequestDecryption(s, v) /\ tx'.status = "success") =>
              /\ tx'.returned = <<contract.decryptionRequestCounter + 1>>
              /\ contract'.decryptionRequestCounter =
                   contract.decryptionRequestCounter + 1]_vars

\* C35: while the contract is paused, registerFarm, submitFarmData and
\* startCollaborativeAnalysis revert and leave the storage as it was; isPaused
\* becomes true only in a transaction sent by an address that is a pauser,
\* and false only in unpause sent by the owner; isPublicDecryptAllowed() is
\* the negation of isPaused.
C35_PauseGate ==
  [][contract # Null =>
       /\ contract.isPaused =>
            \A s \in Accounts :
              (\/ RegisterFarm(s)
               \/ StartCollaborativeAnalysis(s)
               \/ \E q \in SoilQualities, w \in WaterUsages, c \in CropTypes :
                    SubmitFarmData(s, q, w, c)) =>
                /\ tx'.status # "success"
                /\ contract' = contract
       /\ (~contract.isPaused /\ contract'.isPaused) =>
            /\ tx'.fn \in {"pause", "emergencyPause"}
            /\ IsPauser(tx'.sender)
       /\ (contract.isPaused /\ ~contract'.isPaused) =>
            /\ tx'.fn = "unpause"
            /\ tx'.sender = contract.owner
       /\ IsPublicDecryptAllowed = ~contract.isPaused]_vars

\* an analysis that three farms with data would allow was refused while the
\* contract was paused
C35_Witness ==
  /\ contract # Null
  /\ contract.isPaused
  /\ tx.fn = "startCollaborativeAnalysis"
  /\ tx.status = "Contract is paused"
  /\ GetParticipatingFarmsCount >= 3

\* the registered farms that have submitted data
FarmsWithData ==
  {a \in Accounts :
     contract.registeredFarms[a] /\ contract.farmDataRegistry[a].dataSubmitted}

\* C36: startCollaborativeAnalysis succeeds only when at least 3 registered
\* farms have submitted data; a successful call returns currentAnalysisId,
\* stores that analysis as active with the number of those farms and adds 1
\* to currentAnalysisId; no other step changes currentAnalysisId.
C36_AnalysisIds ==
  [][contract # Null =>
       /\ \A s \in Accounts :
            (StartCollaborativeAnalysis(s) /\ tx'.status = "success") =>
              /\ Cardinality(FarmsWithData) >= 3
              /\ tx'.returned = <<contract.currentAnalysisId>>
              /\ contract'.analysisResults[contract.currentAnalysisId] =
                   [analysisId |-> contract.currentAnalysisId,
                    isActive |-> TRUE,
                    participatingFarms |-> Cardinality(FarmsWithData)]
              /\ contract'.currentAnalysisId = contract.currentAnalysisId + 1
       /\ contract'.currentAnalysisId # contract.currentAnalysisId =>
            /\ tx'.fn = "startCollaborativeAnalysis"
            /\ tx'.status = "success"]_vars

\* a second analysis was started and got the id 2
C36_Witness ==
  /\ contract # Null
  /\ tx.fn = "startCollaborativeAnalysis"
  /\ tx.status = "success"
  /\ tx.returned = <<2>>
  /\ contract.analysisResults[2].participatingFarms = 3

\* C37: an address is in pauserAddresses exactly when isPauser(address) is
\* true, the list holds no address twice, and getPauserCount() is the number
\* of addresses that are allowed to pause.
C37_PauserListExact ==
  contract # Null =>
    /\ \A a \in Addresses :
         (\E k \in 1..Len(contract.pauserAddresses) :
            contract.pauserAddresses[k] = a) <=> IsPauser(a)
    /\ \A j, k \in 1..Len(contract.pauserAddresses) :
         j # k => contract.pauserAddresses[j] # contract.pauserAddresses[k]
    /\ GetPauserCount = Cardinality({a \in Addresses : IsPauser(a)})

\* C38: retry invokes fn at most maxRetries times, never while an earlier
\* invocation is unsettled; it resolves with the value of the first
\* invocation that succeeds and then invokes fn no more; when maxRetries
\* invocations have failed it is rejected with the error of the last one.
C38_Retry ==
  [][retryRun # Null =>
       /\ retryRun.invocations <= retryRun.maxRetries
       /\ retryRun.pending <= 1
       /\ retryRun.pending = 1 <=> retryRun.pc = "fn"
       /\ retryRun.invocations =
            Len(retryRun.errors) + (IF retryRun.pc \in {"fn", "resolved"} THEN 1 ELSE 0)
       /\ \A v \in FnValues :
            FnResolves(v) =>
              /\ retryRun'.pc = "resolved"
              /\ retryRun'.result = [value |-> v]
       /\ retryRun.pc = "resolved" => retryRun' = retryRun
       /\ (retryRun.maxRetries > 0 /\ Len(retryRun.errors) = retryRun.maxRetries) =>
            /\ retryRun.pc = "rejected"
            /\ retryRun.result = [error |-> retryRun.errors[Len(retryRun.errors)]]
            /\ retryRun' = retryRun]_vars

\* three invocations failed, with different errors, and retry was rejected
\* with the error of the third
C38_Witness ==
  /\ retryRun # Null
  /\ retryRun.maxRetries = 3
  /\ retryRun.errors = <<"e1", "e1", "e2">>
  /\ retryRun.pc = "rejected"
  /\ retryRun.result = [error |-> "e2"]

\* C39: the isInitialized flag of the context is true only while the
\* FHEProvider is ready, so no render calls getInstance() on a provider that
\* has no instance: the rendered context value is never the error.
C39_ContextReady ==
  /\ context.isInitialized => isReady
  /\ context.rendered # RenderError
====
